---------------------------- MODULE Spec2Model ----------------------------
(***************************************************************************)
(* Two-pass assembler (Maman 14): symbol table, first pass, second pass    *)
(* and emitter, modelled as a state machine.                               *)
(*                                                                         *)
(* Strings are sequences of one-character strings; a C string position p   *)
(* (0-based) is read with At(s, p), which yields NUL past the end.         *)
(***************************************************************************)
EXTENDS Integers, Sequences, FiniteSets, TLC

(***************************************************************************)
(* Bounds of the model (not program constants).                            *)
(***************************************************************************)
\* capacity of the symbol table; stands for MAX_SYMBOLS (1000 in symbols.c)
MAX_SYMBOLS == 2
\* allocated words of each image; stands for MAX_DATA_VALUES (100 in globals.h)
MAX_DATA_VALUES == 4
\* largest symbol value the symbol-table driver lets adjust/update reach
MaxSymValue == 200
\* lines read from one expanded file
MaxLines == 2
\* files named on the command line
NumFiles == 2

(***************************************************************************)
(* Program constants.                                                      *)
(***************************************************************************)
SYMBOL_CODE == 0
SYMBOL_DATA == 1
SYMBOL_EXTERN == 2
SYMBOL_ENTRY == 3
START_ADDRESS == 100
CONTENT_BITS == 21
WORD_SIZE == 24
ARE_ABSOLUTE == 4
ARE_RELOCATABLE == 2
ARE_EXTERNAL == 1
MAX_LABEL_LENGTH == 31

MAX_CONTENT == 2^(CONTENT_BITS - 1) - 1
MIN_CONTENT == -(2^(CONTENT_BITS - 1))

(***************************************************************************)
(* Characters.                                                             *)
(***************************************************************************)
NUL == "NUL"
\* a null pointer: a sequence no C string equals
NULL == <<"NULL">>

Upper == {"A","B","C","D","E","F","G","H","I","J","K","L","M",
          "N","O","P","Q","R","S","T","U","V","W","X","Y","Z"}
Lower == {"a","b","c","d","e","f","g","h","i","j","k","l","m",
          "n","o","p","q","r","s","t","u","v","w","x","y","z"}
Digit == {"0","1","2","3","4","5","6","7","8","9"}

isalpha(c) == c \in Upper \cup Lower
isdigit(c) == c \in Digit
isalnum(c) == isalpha(c) \/ isdigit(c)
isspace(c) == c \in {" ", "\t", "\n", "\r", "\f"}

At(s, p) == IF p >= 0 /\ p < Len(s) THEN s[p + 1] ELSE NUL

\* n times the character c
Repeat(c, n) == [k \in 1..n |-> c]

\* characters s[from .. to-1] of a C string
Slice(s, from, to) == IF to <= from THEN <<>> ELSE SubSeq(s, from + 1, to)

DigitVal(c) ==
  CASE c = "0" -> 0 [] c = "1" -> 1 [] c = "2" -> 2 [] c = "3" -> 3
    [] c = "4" -> 4 [] c = "5" -> 5 [] c = "6" -> 6 [] c = "7" -> 7
    [] c = "8" -> 8 [] c = "9" -> 9

(***************************************************************************)
(* String utilities (utils.c) and lexical helpers (text_parser.c).         *)
(***************************************************************************)
is_space_or_tab(c) == c = " " \/ c = "\t"

\* while (isspace(*src)) src++;
RECURSIVE skip_isspace(_, _)
skip_isspace(s, p) ==
  IF isspace(At(s, p)) THEN skip_isspace(s, p + 1) ELSE p

\* the copy loop of normalize_string: src index p, text written so far out
RECURSIVE normalize_loop(_, _, _, _, _)
normalize_loop(s, p, out, in_space, collapse_spaces) ==
  IF At(s, p) = NUL THEN out
  ELSE IF isspace(At(s, p))
    THEN IF ~in_space
           THEN normalize_loop(s, p + 1, Append(out, " "),
                               collapse_spaces, collapse_spaces)
           ELSE normalize_loop(s, p + 1, out, in_space, collapse_spaces)
  ELSE normalize_loop(s, p + 1, Append(out, At(s, p)), FALSE, collapse_spaces)

normalize_string(s, collapse_spaces) ==
  LET out == normalize_loop(s, skip_isspace(s, 0), <<>>, FALSE, collapse_spaces)
  IN  IF Len(out) > 0 /\ isspace(out[Len(out)])
        THEN SubSeq(out, 1, Len(out) - 1)
        ELSE out

\* strchr(str, ';'): the index of the first ';', Len(s) when there is none
RECURSIVE strchr_comment(_, _)
strchr_comment(s, p) ==
  IF At(s, p) = NUL \/ At(s, p) = ";" THEN p ELSE strchr_comment(s, p + 1)

remove_comment(s) == Slice(s, 0, strchr_comment(s, 0))

RECURSIVE skip_whitespace(_, _)
skip_whitespace(s, p) ==
  IF is_space_or_tab(At(s, p)) THEN skip_whitespace(s, p + 1) ELSE p

\* while (isalnum(str[*pos]) || str[*pos] == '_') (*pos)++;
RECURSIVE scan_label(_, _)
scan_label(s, p) ==
  IF isalnum(At(s, p)) \/ At(s, p) = "_" THEN scan_label(s, p + 1) ELSE p

\* the label (or NULL) and the position after the call
extract_label(s, pos) ==
  LET start == skip_whitespace(s, pos)
      stop == scan_label(s, start)
  IN  IF ~isalpha(At(s, start)) THEN [label |-> NULL, pos |-> start]
      ELSE IF At(s, stop) # ":" THEN [label |-> NULL, pos |-> start]
      ELSE [label |-> Slice(s, start, stop), pos |-> stop + 1]

\* while (str[*pos] && !is_space_or_tab(str[*pos]) && str[*pos] != '\n')
RECURSIVE scan_token(_, _)
scan_token(s, p) ==
  IF At(s, p) # NUL /\ ~is_space_or_tab(At(s, p)) /\ At(s, p) # "\n"
    THEN scan_token(s, p + 1)
    ELSE p

extract_directive(s, pos) ==
  LET start == skip_whitespace(s, pos)
      stop == scan_token(s, start)
  IN  IF At(s, start) # "." THEN [directive |-> NULL, pos |-> start]
      ELSE [directive |-> Slice(s, start, stop), pos |-> stop]

\* while (str[*pos] && str[*pos] != '\n') (*pos)++;
RECURSIVE scan_line(_, _)
scan_line(s, p) ==
  IF At(s, p) # NUL /\ At(s, p) # "\n" THEN scan_line(s, p + 1) ELSE p

extract_arguments(s, pos) ==
  LET start == skip_whitespace(s, pos)
      stop == scan_line(s, start)
  IN  IF At(s, start) = NUL \/ At(s, start) = "\n"
        THEN [args |-> NULL, pos |-> start]
        ELSE [args |-> Slice(s, start, stop), pos |-> stop]

\* the digits of strtol: value accumulated so far and the position reached
RECURSIVE strtol_digits(_, _, _)
strtol_digits(s, p, acc) ==
  IF isdigit(At(s, p))
    THEN strtol_digits(s, p + 1, acc * 10 + DigitVal(At(s, p)))
    ELSE [value |-> acc, endptr |-> p]

\* strtol(str + pos, &endptr, 10): no conversion leaves endptr at pos.  Every
\* value that overflows long is outside [MIN_CONTENT, MAX_CONTENT] as well, so
\* the unbounded value decides the range test as the clamped one does.
strtol(s, pos) ==
  LET p0 == skip_isspace(s, pos)
      neg == At(s, p0) = "-"
      p1 == IF At(s, p0) \in {"+", "-"} THEN p0 + 1 ELSE p0
      d == strtol_digits(s, p1, 0)
  IN  IF ~isdigit(At(s, p1)) THEN [value |-> 0, endptr |-> pos]
      ELSE [value |-> IF neg THEN -d.value ELSE d.value, endptr |-> d.endptr]

strtol_unchecked(s, pos) ==
  LET r == strtol(s, pos)
  IN  IF r.endptr = pos THEN r
      ELSE [value |-> IF r.value > MAX_CONTENT THEN MAX_CONTENT
                      ELSE IF r.value < MIN_CONTENT THEN MIN_CONTENT
                      ELSE r.value,
            endptr |-> r.endptr]

\* the loop without the test of the value against MIN_CONTENT and MAX_CONTENT
RECURSIVE parse_data_loop_norange(_, _, _, _)
parse_data_loop_norange(s, pos, values, max_values) ==
  IF At(s, pos) = NUL \/ Len(values) >= max_values
    THEN [count |-> Len(values), values |-> values]
  ELSE LET r == strtol(s, pos)
           p1 == skip_whitespace(s, r.endptr)
       IN  IF r.endptr = pos
             THEN [count |-> -1, values |-> values]
           ELSE IF At(s, p1) = ","
             THEN parse_data_loop_norange(s, skip_whitespace(s, p1 + 1),
                                          Append(values, r.value), max_values)
           ELSE IF At(s, p1) # NUL
             THEN [count |-> -1, values |-> Append(values, r.value)]
           ELSE parse_data_loop_norange(s, p1, Append(values, r.value),
                                        max_values)

\* the while loop of parse_data_values; count -1 is the error return
RECURSIVE parse_data_loop(_, _, _, _)
parse_data_loop(s, pos, values, max_values) ==
  IF At(s, pos) = NUL \/ Len(values) >= max_values
    THEN [count |-> Len(values), values |-> values]
  ELSE LET r == strtol(s, pos)
           p1 == skip_whitespace(s, r.endptr)
       IN  IF r.endptr = pos \/ r.value < MIN_CONTENT \/ r.value > MAX_CONTENT
             THEN [count |-> -1, values |-> values]
           ELSE IF At(s, p1) = ","
             THEN parse_data_loop(s, skip_whitespace(s, p1 + 1),
                                  Append(values, r.value), max_values)
           ELSE IF At(s, p1) # NUL
             THEN [count |-> -1, values |-> Append(values, r.value)]
           ELSE parse_data_loop(s, p1, Append(values, r.value), max_values)

parse_data_values(s, max_values) ==
  parse_data_loop(s, skip_whitespace(s, 0), <<>>, max_values)

\* printable ASCII, codes 32 .. 126 (code 96 is spelled out)
Ascii ==
  <<" ","!","\"","#","$","%","&","'","(",")","*","+",",","-",".","/",
    "0","1","2","3","4","5","6","7","8","9",":",";","<","=",">","?",
    "@","A","B","C","D","E","F","G","H","I","J","K","L","M","N","O",
    "P","Q","R","S","T","U","V","W","X","Y","Z","[","\\","]","^","_",
    "GRAVE","a","b","c","d","e","f","g","h","i","j","k","l","m","n","o",
    "p","q","r","s","t","u","v","w","x","y","z","{","|","}","~">>

\* (unsigned char)c
Ord(c) ==
  IF c = "\t" THEN 9
  ELSE IF c = "\n" THEN 10
  ELSE 31 + (CHOOSE k \in 1..Len(Ascii) : Ascii[k] = c)

\* while (str[pos] && str[pos] != STRING_DELIMITER && count < max_values - 1)
RECURSIVE parse_string_loop(_, _, _, _)
parse_string_loop(s, pos, values, max_values) ==
  IF At(s, pos) # NUL /\ At(s, pos) # "\"" /\ Len(values) < max_values - 1
    THEN parse_string_loop(s, pos + 1, Append(values, Ord(At(s, pos))),
                           max_values)
    ELSE [pos |-> pos, values |-> values]

parse_string_value(s, max_values) ==
  LET p0 == skip_whitespace(s, 0)
      r == parse_string_loop(s, p0 + 1, <<>>, max_values)
  IN  IF At(s, p0) # "\"" THEN [count |-> -1, values |-> <<>>]
      ELSE IF At(s, r.pos) # "\"" THEN [count |-> -1, values |-> r.values]
      ELSE [count |-> Len(r.values) + 1, values |-> Append(r.values, 0)]

(***************************************************************************)
(* Machine words (cpu.c).                                                  *)
(***************************************************************************)
\* the arguments stored as they arrive, without the masks
init_machine_word_unmasked(content, are) == [content |-> content, ARE |-> are]

\* content and are arrive as unsigned int; the masks keep the low bits
init_machine_word(content, are) ==
  [content |-> content % (2^CONTENT_BITS), ARE |-> are % 8]

\* the shifted content alone, without the ARE bits
get_full_word_value_content_only(word) == word.content * 8

\* (word->content << 3) | (word->ARE & 0x7): the low three bits of the shifted
\* content are 0, so the OR is a sum
get_full_word_value(word) == (word.content * 8) + (word.ARE % 8)

(***************************************************************************)
(* Diagnostics (errors.c).                                                 *)
(***************************************************************************)
\* one reported event: its class and the file/line context it was tagged with
Event(type, file, line, msg) ==
  [type |-> type, file |-> file, line |-> line, msg |-> msg]

(***************************************************************************)
(* Symbol table (symbols.c).  The table is the sequence of the first       *)
(* symbol_count slots of the four static arrays; a result record carries   *)
(* the table after the call, the return value and the reported messages.   *)
(***************************************************************************)
Symbol(name, value, type, flag) ==
  [name |-> name, value |-> value, type |-> type, entry_flag |-> flag]

SymResult(tab, ret, msgs) == [tab |-> tab, ret |-> ret, msgs |-> msgs]

\* for (i = 0; i < symbol_count; i++) if (strcmp(symbol_names[i], name) == 0):
\* the first matching index (1-based), 0 when the loop runs out
RECURSIVE find_symbol(_, _, _)
find_symbol(tab, name, i) ==
  IF i > Len(tab) THEN 0
  ELSE IF tab[i].name = name THEN i
  ELSE find_symbol(tab, name, i + 1)

init_symbol_table(tab) == SymResult(<<>>, 1, <<>>)

add_symbol_overwrite(tab, name, value, type) ==
  LET i == find_symbol(tab, name, 1)
  IN  IF Len(tab) >= MAX_SYMBOLS
        THEN SymResult(tab, 0, <<"Symbol table full">>)
      ELSE IF i # 0
        THEN SymResult([tab EXCEPT ![i].value = value, ![i].type = type],
                       0, <<"Symbol already exists">>)
      ELSE SymResult(Append(tab, Symbol(name, value, type, type = SYMBOL_ENTRY)),
                     1, <<>>)

add_symbol_nocheck(tab, name, value, type) ==
  IF Len(tab) >= MAX_SYMBOLS
    THEN SymResult(tab, 0, <<"Symbol table full">>)
    ELSE SymResult(Append(tab, Symbol(name, value, type, type = SYMBOL_ENTRY)),
                   1, <<>>)

add_symbol(tab, name, value, type) ==
  IF Len(tab) >= MAX_SYMBOLS
    THEN SymResult(tab, 0, <<"Symbol table full">>)
  ELSE IF find_symbol(tab, name, 1) # 0
    THEN SymResult(tab, 0, <<"Symbol already exists">>)
  ELSE SymResult(Append(tab, Symbol(name, value, type, type = SYMBOL_ENTRY)),
                 1, <<>>)

get_symbol_value(tab, name) ==
  LET i == find_symbol(tab, name, 1)
  IN  IF i # 0 THEN tab[i].value ELSE -1

update_symbol_value(tab, name, new_value) ==
  LET i == find_symbol(tab, name, 1)
  IN  IF i # 0
        THEN SymResult([tab EXCEPT ![i].value = new_value], 1, <<>>)
        ELSE SymResult(tab, 0, <<"Symbol not found">>)

mark_entry_symbol_retype(tab, name) ==
  LET i == find_symbol(tab, name, 1)
  IN  IF i = 0 THEN SymResult(tab, 0, <<"Symbol not found">>)
      ELSE IF tab[i].type = SYMBOL_EXTERN
        THEN SymResult(tab, 0, <<"Cannot mark extern as entry">>)
      ELSE SymResult([tab EXCEPT ![i].entry_flag = TRUE,
                                 ![i].type = SYMBOL_ENTRY], 1, <<>>)

mark_entry_symbol_noextern(tab, name) ==
  LET i == find_symbol(tab, name, 1)
  IN  IF i = 0 THEN SymResult(tab, 0, <<"Symbol not found">>)
      ELSE SymResult([tab EXCEPT ![i].entry_flag = TRUE], 1, <<>>)

mark_entry_symbol(tab, name) ==
  LET i == find_symbol(tab, name, 1)
  IN  IF i = 0 THEN SymResult(tab, 0, <<"Symbol not found">>)
      ELSE IF tab[i].type = SYMBOL_EXTERN
        THEN SymResult(tab, 0, <<"Cannot mark extern as entry">>)
      ELSE SymResult([tab EXCEPT ![i].entry_flag = TRUE], 1, <<>>)

adjust_all_symbol_addresses(tab, ic) ==
  [i \in 1..Len(tab) |-> [tab[i] EXCEPT !.value = @ + ic]]

adjust_data_symbol_addresses(tab, ic) ==
  [i \in 1..Len(tab) |->
     IF tab[i].type = SYMBOL_DATA
       THEN [tab[i] EXCEPT !.value = @ + ic]
       ELSE tab[i]]

RECURSIVE validate_from(_, _)
validate_from(tab, i) ==
  IF i > Len(tab) THEN SymResult(tab, 1, <<>>)
  ELSE IF tab[i].type = SYMBOL_EXTERN /\ tab[i].entry_flag
    THEN SymResult(tab, 0, <<"Symbol cannot be both extern and entry">>)
  ELSE validate_from(tab, i + 1)

validate_symbol_table(tab) == validate_from(tab, 1)

free_symbol_table(tab) == SymResult(<<>>, 1, <<>>)


(***************************************************************************)
(* State.                                                                  *)
(***************************************************************************)
VARIABLES
  symbols,        \* symbols.c: the static symbol arrays, slots 0 .. symbol_count-1
  sym_def,        \* history: for each symbol, the file and counters at its definition
  call,           \* history: the symbol-table call made by the last step
  ret,            \* return value of the last call or pass
  diag,           \* events written by report_error during the last step
  current_file,   \* errors.c: static current_file
  current_line,   \* errors.c: static current_line
  pc,             \* where main/process_file stands
  file_idx,       \* main: index i of the argument being processed
  am,             \* lines of the expanded file of the current argument
  line_number,    \* run_first_pass / run_second_pass: line_number
  state,          \* process_file: AssemblerState state
  success,        \* run_first_pass: success
  file_success,   \* process_file: success
  ob, ent, ext,   \* artifacts written for the current argument
  outcome,        \* per argument, the status process_file printed
  input,          \* preprocess_file: the physical lines read from the source
  macro_table,    \* PreprocessorState: macro_table.macros[0 .. count-1]
  current_macro,  \* expand_macros: current_macro (0 is NULL, else its slot)
  output,         \* the characters written to the expanded file
  macro_status    \* expand_macros: "reading", or the status it returned

vars == <<symbols, sym_def, call, ret, diag, current_file, current_line, pc,
          file_idx, am, line_number, state, success, file_success,
          ob, ent, ext, outcome,
          input, macro_table, current_macro, output, macro_status>>

macrovars == <<input, macro_table, current_macro, output, macro_status>>

pipevars == <<current_file, current_line, pc, file_idx, am, line_number,
              state, success, file_success, ob, ent, ext, outcome>>

symbol_count == Len(symbols)

NoCall == [op |-> "none", name |-> NULL, value |-> 0, type |-> 0]
Call(op, name, value, type) ==
  [op |-> op, name |-> name, value |-> value, type |-> type]

\* report_error(type, ...) once for each message, tagged with the context
Events(type, msgs, file, line) ==
  [k \in 1..Len(msgs) |-> Event(type, file, line, msgs[k])]

\* an AssemblerState that holds no images (before init, after free)
NoState == [code_image |-> <<>>, code_capacity |-> 0,
            data_image |-> <<>>, data_capacity |-> 0,
            instruction_counter |-> 0, data_counter |-> 0]

\* an artifact that was not written
NoFile == [written |-> FALSE, lines |-> <<>>]
File(lines) == [written |-> TRUE, lines |-> lines]

Init ==
  /\ symbols = <<>>
  /\ sym_def = <<>>
  /\ call = NoCall
  /\ ret = 1
  /\ diag = <<>>
  /\ current_file = NULL
  /\ current_line = 0
  /\ pc = "main"
  /\ file_idx = 1
  /\ am = <<>>
  /\ line_number = 0
  /\ state = NoState
  /\ success = 1
  /\ file_success = 1
  /\ ob = NoFile
  /\ ent = NoFile
  /\ ext = NoFile
  /\ outcome = <<>>
  /\ input = <<>>
  /\ macro_table = <<>>
  /\ current_macro = 0
  /\ output = <<>>
  /\ macro_status = "reading"

(***************************************************************************)
(* The symbol table driven through its interface, in any order and with    *)
(* any arguments (specification SymSpec).                                  *)
(***************************************************************************)
SymNames == {<<"X">>, <<"Y">>, <<"Z">>}
SymValues == {0, START_ADDRESS}
SymTypes == {SYMBOL_CODE, SYMBOL_DATA, SYMBOL_EXTERN, SYMBOL_ENTRY}
AdjustIC == START_ADDRESS

\* the history of definitions follows the table: one more entry when a symbol
\* was appended, none when the table was emptied
DefAfter(tab, origin) ==
  IF Len(tab) = Len(symbols) + 1 THEN Append(sym_def, origin)
  ELSE IF Len(tab) = 0 THEN <<>>
  ELSE sym_def

NoOrigin == [file |-> 0, dc |-> 0, ic |-> 0]

SymStep(r, op, name, value, type) ==
  /\ symbols' = r.tab
  /\ sym_def' = DefAfter(r.tab, NoOrigin)
  /\ ret' = r.ret
  /\ diag' = Events("Symbol", r.msgs, current_file, current_line)
  /\ call' = Call(op, name, value, type)
  /\ UNCHANGED pipevars
  /\ UNCHANGED macrovars

SymInit ==
  SymStep(init_symbol_table(symbols), "init_symbol_table", NULL, 0, 0)

SymAdd ==
  \E n \in SymNames, v \in SymValues, t \in SymTypes :
    SymStep(add_symbol(symbols, n, v, t), "add_symbol", n, v, t)

SymGet ==
  \E n \in SymNames :
    SymStep(SymResult(symbols, get_symbol_value(symbols, n), <<>>),
            "get_symbol_value", n, 0, 0)

SymUpdate ==
  \E n \in SymNames, v \in SymValues :
    SymStep(update_symbol_value(symbols, n, v),
            "update_symbol_value", n, v, 0)

SymMarkEntry ==
  \E n \in SymNames :
    SymStep(mark_entry_symbol(symbols, n), "mark_entry_symbol", n, 0, 0)

SymAdjust ==
  /\ \A i \in 1..Len(symbols) : symbols[i].value + AdjustIC <= MaxSymValue
  /\ SymStep(SymResult(adjust_data_symbol_addresses(symbols, AdjustIC), 1, <<>>),
             "adjust_data_symbol_addresses", NULL, AdjustIC, 0)

SymValidate ==
  SymStep(validate_symbol_table(symbols),
          "validate_symbol_table", NULL, 0, 0)

SymFree ==
  SymStep(free_symbol_table(symbols), "free_symbol_table", NULL, 0, 0)

SymNext ==
  \/ SymInit
  \/ SymAdd
  \/ SymGet
  \/ SymUpdate
  \/ SymMarkEntry
  \/ SymAdjust
  \/ SymValidate
  \/ SymFree

SymSpec == Init /\ [][SymNext]_vars


(***************************************************************************)
(* Directive names (globals.h) and the source lines the model reads.       *)
(***************************************************************************)
DATA_DIRECTIVE == <<".", "d", "a", "t", "a">>
STRING_DIRECTIVE == <<".", "s", "t", "r", "i", "n", "g">>
ENTRY_DIRECTIVE == <<".", "e", "n", "t", "r", "y">>
EXTERN_DIRECTIVE == <<".", "e", "x", "t", "e", "r", "n">>
COMMENT_CHAR == ";"
MAX_STRING_LENGTH == 256

\* lines of an expanded file, each as fgets returns it (newline included)
\* X: .data 7,-3
LineData ==
  <<"X", ":", " ", ".", "d", "a", "t", "a", " ", "7", ",", "-", "3", "\n">>
\* S: .string 'ab'
LineString ==
  <<"S", ":", " ", ".", "s", "t", "r", "i", "n", "g", " ", "\"", "a", "b", "\"", "\n">>
\* stop
LineInstr ==
  <<"s", "t", "o", "p", "\n">>
\* L: stop
LineCode ==
  <<"L", ":", " ", "s", "t", "o", "p", "\n">>
\* .extern X
LineExtern ==
  <<".", "e", "x", "t", "e", "r", "n", " ", "X", "\n">>
\* .entry X
LineEntry ==
  <<".", "e", "n", "t", "r", "y", " ", "X", "\n">>
\* ; c
LineComment ==
  <<";", " ", "c", "\n">>
\* .data 1048576
LineBadData ==
  <<".", "d", "a", "t", "a", " ", "1", "0", "4", "8", "5", "7", "6", "\n">>

\* LEN: .data 7, -3, 42
LineLen ==
  <<"L", "E", "N", ":", " ", ".", "d", "a", "t", "a", " ", "7", ",", " ",
    "-", "3", ",", " ", "4", "2", "\n">>

\* jmp X
LineJmp == <<"j", "m", "p", " ", "X", "\n">>

\* .data
LineNoArgs == <<".", "d", "a", "t", "a", "\n">>

\* an instruction with a label of MAX_LABEL_LENGTH + 1 letters
LineLongLabel ==
  Repeat("A", MAX_LABEL_LENGTH + 1) \o <<":", " ", "s", "t", "o", "p", "\n">>

Lines == {LineData, LineString, LineInstr, LineCode, LineExtern, LineEntry,
          LineComment, LineBadData, LineLen, LineJmp, LineNoArgs,
          LineLongLabel}

\* argv[1 ..]: the files named on the command line
Argv == <<"a.as", "b.as", "c.as", "d.as">>
\* create_output_path(filename, "am", ".am")
AmFile(i) == <<"am", Argv[i]>>

(***************************************************************************)
(* First pass (first_pass.c).                                              *)
(***************************************************************************)
\* the contents malloc'ed memory may hold where no word was written
GarbagePatterns == {0, 1}
Garbage(g) ==
  IF g = 0 THEN [content |-> 0, ARE |-> 0]
  ELSE [content |-> 2^CONTENT_BITS - 1, ARE |-> 7]

\* both images are malloc(MAX_DATA_VALUES * sizeof(MachineWord)): the words
\* of the allocation hold what the allocator left in them
init_assembler_state(g) ==
  [code_image |-> [i \in 1..MAX_DATA_VALUES |-> Garbage(g)],
   code_capacity |-> MAX_DATA_VALUES,
   data_image |-> [i \in 1..MAX_DATA_VALUES |-> Garbage(g)],
   data_capacity |-> MAX_DATA_VALUES,
   instruction_counter |-> 0, data_counter |-> 0]

\* image[index] = word; a word written past the allocation lands in the
\* memory that follows it
WriteWord(image, index, word) ==
  IF index >= Len(image) THEN Append(image, word)
  ELSE [image EXCEPT ![index + 1] = word]

\* for (i = 0; i < count; i++)
\*   init_machine_word(&state->data_image[state->data_counter++], values[i], ARE_ABSOLUTE);
RECURSIVE store_values(_, _, _)
store_values(st, values, i) ==
  IF i > Len(values) THEN st
  ELSE store_values(
         [st EXCEPT !.data_image =
                      WriteWord(@, st.data_counter,
                                init_machine_word(values[i], ARE_ABSOLUTE)),
                    !.data_counter = @ + 1],
         values, i + 1)

\* what one iteration of a pass does: the table and state after it, whether it
\* cleared success, the events it reported, the symbol-table call it made and
\* the memory fault it ran into ("null": a null pointer was dereferenced,
\* "overflow": a word was written past the allocated image)
LineResult(tab, st, clear, type, msgs, c, r, fault) ==
  [tab |-> tab, st |-> st, clear |-> clear, type |-> type, msgs |-> msgs,
   call |-> c, ret |-> r, fault |-> fault]

\* if (label) add_symbol(label, value, type); the return value is dropped
add_label(tab, label, value, type) ==
  IF label = NULL THEN [r |-> SymResult(tab, 1, <<>>), call |-> NoCall]
  ELSE [r |-> add_symbol(tab, label, value, type),
        call |-> Call("add_symbol", label, value, type)]

\* as store_directive, but the symbol is given the bare data counter
store_directive_relative(tab, st, label, values) ==
  LET a == add_label(tab, label, st.data_counter, SYMBOL_DATA)
      st2 == store_values(st, values, 1)
  IN  LineResult(a.r.tab, st2, FALSE, "Symbol", a.r.msgs, a.call, a.r.ret,
                 IF st2.data_counter > st.data_capacity
                   THEN "overflow" ELSE "none")

\* the body shared by the .data and .string branches once the values parsed
store_directive(tab, st, label, values) ==
  LET a == add_label(tab, label, st.data_counter + START_ADDRESS, SYMBOL_DATA)
      st2 == store_values(st, values, 1)
  IN  LineResult(a.r.tab, st2, FALSE, "Symbol", a.r.msgs, a.call, a.r.ret,
                 IF st2.data_counter > st.data_capacity
                   THEN "overflow" ELSE "none")

\* as parsed_directive, but a line that fails to parse keeps its label and the
\* values read before the error
parsed_directive_partial(tab, st, label, v) ==
  IF v.count < 0
    THEN [store_directive(tab, st, label, v.values) EXCEPT !.clear = TRUE]
    ELSE store_directive(tab, st, label, SubSeq(v.values, 1, v.count))

\* the .data and .string branches after the parse: if (count < 0) { success =
\* 0; continue; } and then the label and the words
parsed_directive(tab, st, label, v) ==
  IF v.count < 0
    THEN LineResult(tab, st, TRUE, "Symbol", <<>>, NoCall, 1, "none")
    ELSE store_directive(tab, st, label, SubSeq(v.values, 1, v.count))

\* as entry_extern_directive, but the label of the line is defined as well
entry_extern_directive_labelled(tab, st, label, directive, args) ==
  LET l == add_label(tab, label, st.instruction_counter + START_ADDRESS,
                     SYMBOL_CODE)
  IN  IF directive = EXTERN_DIRECTIVE /\ args # NULL
        THEN LET a == add_label(l.r.tab, args, 0, SYMBOL_EXTERN)
             IN  LineResult(a.r.tab, st, FALSE, "Symbol", a.r.msgs, a.call,
                            a.r.ret, "none")
        ELSE LineResult(l.r.tab, st, FALSE, "Symbol", <<>>, NoCall, 1, "none")

\* the .entry/.extern branch: if (strcmp(directive, EXTERN_DIRECTIVE) == 0 &&
\* args) add_symbol(args, 0, SYMBOL_EXTERN); the label is not looked at
entry_extern_directive(tab, st, label, directive, args) ==
  IF directive = EXTERN_DIRECTIVE /\ args # NULL
    THEN LET a == add_label(tab, args, 0, SYMBOL_EXTERN)
         IN  LineResult(a.r.tab, st, FALSE, "Symbol", a.r.msgs, a.call,
                        a.r.ret, "none")
    ELSE LineResult(tab, st, FALSE, "Symbol", <<>>, NoCall, 1, "none")

first_pass_line(tab, st, raw) ==
  LET line == remove_comment(normalize_string(raw, TRUE))
      pos == skip_whitespace(line, 0)
      lab == extract_label(line, pos)
      dir == extract_directive(line, lab.pos)
      arg == extract_arguments(line, dir.pos)
      skip == LineResult(tab, st, FALSE, "Symbol", <<>>, NoCall, 1, "none")
      null == LineResult(tab, st, FALSE, "Symbol", <<>>, NoCall, 1, "null")
  IN  IF At(line, pos) = NUL \/ At(line, pos) = "\n" THEN skip
      ELSE IF dir.directive # NULL
        THEN IF dir.directive = DATA_DIRECTIVE
               THEN IF arg.args = NULL THEN null
                    ELSE parsed_directive(tab, st, lab.label,
                           parse_data_values(arg.args, MAX_DATA_VALUES))
             ELSE IF dir.directive = STRING_DIRECTIVE
               THEN IF arg.args = NULL THEN null
                    ELSE parsed_directive(tab, st, lab.label,
                           parse_string_value(arg.args, MAX_STRING_LENGTH))
             ELSE IF dir.directive = ENTRY_DIRECTIVE
                     \/ dir.directive = EXTERN_DIRECTIVE
               THEN entry_extern_directive(tab, st, lab.label, dir.directive,
                                           arg.args)
             ELSE LineResult(tab, st, TRUE, "Syntax", <<"Unknown directive">>,
                             NoCall, 1, "none")
      ELSE LET a == add_label(tab, lab.label,
                              st.instruction_counter + START_ADDRESS,
                              SYMBOL_CODE)
           IN  LineResult(a.r.tab,
                          [st EXCEPT !.instruction_counter = @ + 2],
                          FALSE, "Symbol", a.r.msgs, a.call, a.r.ret, "none")

(***************************************************************************)
(* Second pass and emitter (second_pass.c).                                *)
(***************************************************************************)
\* the placeholder of the instruction branch: state->instruction_counter += 2
second_pass_instruction(st) == [st EXCEPT !.instruction_counter = @ + 2]

second_pass_line(tab, st, raw) ==
  LET line == normalize_string(raw, TRUE)
      pos == skip_whitespace(line, 0)
      lab == extract_label(line, pos)
      dir == extract_directive(line, lab.pos)
      arg == extract_arguments(line, dir.pos)
      skip == LineResult(tab, st, FALSE, "Symbol", <<>>, NoCall, 1, "none")
  IN  IF At(line, pos) = NUL \/ At(line, pos) = COMMENT_CHAR THEN skip
      ELSE IF dir.directive # NULL
        THEN IF dir.directive = ENTRY_DIRECTIVE
               THEN IF arg.args = NULL /\ Len(tab) > 0
                      THEN LineResult(tab, st, FALSE, "Symbol", <<>>, NoCall, 1,
                                      "null")
                    ELSE LET r == mark_entry_symbol(tab, arg.args)
                         IN  LineResult(r.tab, st, FALSE, "Symbol",
                               IF r.ret = 0
                                 THEN r.msgs \o <<"Failed to mark symbol as entry">>
                                 ELSE r.msgs,
                               Call("mark_entry_symbol", arg.args, 0, 0),
                               r.ret, "none")
             ELSE skip
      ELSE LineResult(tab, second_pass_instruction(st), FALSE, "Symbol", <<>>,
                      NoCall, 1, "none")

\* printf conversions
HexDigits == <<"0","1","2","3","4","5","6","7","8","9","A","B","C","D","E","F">>

RECURSIVE Digits(_, _)
Digits(n, base) ==
  IF n < base THEN <<HexDigits[n + 1]>>
  ELSE Append(Digits(n \div base, base), HexDigits[(n % base) + 1])

RECURSIVE ZeroPad(_, _)
ZeroPad(str, width) ==
  IF Len(str) >= width THEN str ELSE ZeroPad(<<"0">> \o str, width)

\* %d, %04d and %06X of a value that is not negative
FmtD(n) == Digits(n, 10)
Fmt04d(n) == ZeroPad(Digits(n, 10), 4)
Fmt06X(n) == ZeroPad(Digits(n, 16), 6)

\* state->code_image[i]: a slot inside the allocation holds the word in it
\* (no pass writes the code image, so that is what malloc left there), and
\* one outside it whatever lies there
read_code_image(st, i, g) ==
  IF i < st.code_capacity THEN st.code_image[i + 1] ELSE Garbage(g)

\* state->data_image[i] for i < data_counter: the word written there, unless
\* the slot lies outside the allocation and was overwritten since
read_data_image(st, i, g, clobbered) ==
  IF i >= st.data_capacity /\ clobbered
    THEN Garbage(g)
    ELSE st.data_image[i + 1]

\* "%04d %06X\n"
ob_line(address, word) ==
  Fmt04d(address) \o <<" ">> \o Fmt06X(get_full_word_value(word)) \o <<"\n">>

ob_code_section(st, g) ==
  [i \in 1..st.instruction_counter |->
     ob_line((i - 1) + START_ADDRESS, read_code_image(st, i - 1, g))]

ob_data_section(st, g, clobbered) ==
  [i \in 1..st.data_counter |->
     ob_line(st.instruction_counter + START_ADDRESS + (i - 1),
             read_data_image(st, i - 1, g, clobbered))]

ob_header(st) ==
  FmtD(st.instruction_counter) \o <<" ">> \o FmtD(st.data_counter) \o <<"\n">>

ob_file(st, g, clobbered) ==
  <<ob_header(st)>> \o ob_code_section(st, g)
                    \o ob_data_section(st, g, clobbered)

\* a line for every symbol of the table, flagged or not
RECURSIVE ent_file_all(_, _)
ent_file_all(tab, i) ==
  IF i > Len(tab) THEN <<>>
  ELSE <<tab[i].name \o <<" ">> \o Fmt04d(tab[i].value) \o <<"\n">>>>
         \o ent_file_all(tab, i + 1)

\* for (i = 0; i < total; i++) if (is_entry_symbol(i)) fprintf(ent, "%s %04d\n", ...)
RECURSIVE ent_file(_, _)
ent_file(tab, i) ==
  IF i > Len(tab) THEN <<>>
  ELSE IF tab[i].entry_flag
    THEN <<tab[i].name \o <<" ">> \o Fmt04d(tab[i].value) \o <<"\n">>>>
           \o ent_file(tab, i + 1)
  ELSE ent_file(tab, i + 1)

\* the emitter reads image slots outside the allocation
emitter_reads_outside(st) ==
  \/ st.instruction_counter > st.code_capacity
  \/ st.data_counter > st.data_capacity

(***************************************************************************)
(* main and process_file (assembler.c), one step per line of a pass.       *)
(***************************************************************************)
Origin == [file |-> file_idx, dc |-> state.data_counter,
           ic |-> state.instruction_counter]

\* a memory fault ends the process (TRUE) or goes unnoticed (FALSE)
Crashes(fault) ==
  IF fault = "none" THEN {FALSE}
  ELSE IF fault = "null" THEN {TRUE}
  ELSE BOOLEAN

Crash ==
  /\ pc' = "crashed"
  /\ call' = NoCall
  /\ diag' = <<>>
  /\ UNCHANGED <<symbols, sym_def, ret, state, success, file_success,
                 ob, ent, ext, outcome, file_idx>>

\* the ways preprocess_file ends: success, a nested definition, an end
\* without a definition (both reported by expand_macros), and the failures
\* that report nothing (file not opened, bad macro name, table full,
\* definition open at the end of the input)
PreprocessResults ==
  {"PREPROC_SUCCESS", "MACRO_ERROR_NESTING", "MACRO_ERROR_SYNTAX",
   "unreported"}

\* what expand_macros hands to report_error on each of them
preprocess_messages(result) ==
  IF result = "MACRO_ERROR_NESTING" THEN <<"Nested macro definition">>
  ELSE IF result = "MACRO_ERROR_SYNTAX" THEN <<"Unexpected macro end">>
  ELSE <<>>

\* main: argv[i] is an input file; process_file preprocesses it and, when
\* that succeeded, initialises the assembler state.  Neither process_file
\* nor preprocess_file calls set_current_file or set_current_line.
ProcessFile ==
  /\ UNCHANGED macrovars
  /\ pc = "main"
  /\ file_idx <= NumFiles
  /\ \E result \in PreprocessResults, g \in GarbagePatterns :
       /\ diag' = Events("Syntax", preprocess_messages(result),
                         current_file, current_line)
       /\ IF result = "PREPROC_SUCCESS"
            THEN /\ state' = init_assembler_state(g)
                 /\ file_success' = 1
                 /\ pc' = "first_pass"
            ELSE /\ state' = NoState
                 /\ file_success' = 0
                 /\ pc' = "cleanup"
  /\ am' = <<>>
  /\ line_number' = 0
  /\ success' = 1
  /\ ob' = NoFile
  /\ ent' = NoFile
  /\ ext' = NoFile
  /\ call' = NoCall
  /\ UNCHANGED <<symbols, sym_def, ret, current_file, current_line,
                 file_idx, outcome>>

\* main: argv[i] is -h, --help, -v or --version
MainOption ==
  /\ UNCHANGED macrovars
  /\ pc = "main"
  /\ file_idx <= NumFiles
  /\ pc' = "exit"
  /\ call' = NoCall
  /\ diag' = <<>>
  /\ UNCHANGED <<symbols, sym_def, ret, current_file, current_line, file_idx,
                 am, line_number, state, success, file_success, ob, ent, ext,
                 outcome>>

\* main: all arguments were processed
MainReturn ==
  /\ UNCHANGED macrovars
  /\ pc = "main"
  /\ file_idx > NumFiles
  /\ pc' = "exit"
  /\ call' = NoCall
  /\ diag' = <<>>
  /\ UNCHANGED <<symbols, sym_def, ret, current_file, current_line, file_idx,
                 am, line_number, state, success, file_success, ob, ent, ext,
                 outcome>>

\* run_first_pass: one iteration of while (fgets(...)), the line read being
\* one of the given lines
FirstPassLineOf(lines) ==
  /\ UNCHANGED macrovars
  /\ pc = "first_pass"
  /\ Len(am) < MaxLines
  /\ \E raw \in lines :
       LET r == first_pass_line(symbols, state, raw)
       IN  /\ am' = Append(am, raw)
           /\ line_number' = line_number + 1
           /\ current_line' = line_number + 1
           /\ current_file' = AmFile(file_idx)
           /\ \E crash \in Crashes(r.fault) :
                IF crash THEN Crash
                ELSE /\ symbols' = r.tab
                     /\ sym_def' = DefAfter(r.tab, Origin)
                     /\ state' = r.st
                     /\ success' = IF r.clear THEN 0 ELSE success
                     /\ call' = r.call
                     /\ ret' = r.ret
                     /\ diag' = Events(r.type, r.msgs, AmFile(file_idx),
                                       line_number + 1)
                     /\ UNCHANGED <<pc, file_idx, file_success, ob, ent, ext,
                                    outcome>>

FirstPassLine == FirstPassLineOf(Lines)

\* run_first_pass: fgets returns NULL; adjust, validate, return success
FirstPassEnd ==
  /\ UNCHANGED macrovars
  /\ pc = "first_pass"
  /\ LET tab == adjust_data_symbol_addresses(symbols, state.instruction_counter)
         v == validate_symbol_table(tab)
     IN  /\ symbols' = tab
         /\ success' = IF v.ret = 0 THEN 0 ELSE success
         /\ ret' = IF v.ret = 0 THEN 0 ELSE success
         /\ diag' = Events("Symbol", v.msgs, current_file, current_line)
         /\ call' = Call("adjust_data_symbol_addresses", NULL,
                         state.instruction_counter, 0)
  /\ pc' = "first_pass_done"
  /\ UNCHANGED <<sym_def, current_file, current_line, file_idx, am,
                 line_number, state, file_success, ob, ent, ext, outcome>>

\* process_file: if (!run_first_pass(...)) { success = 0; goto cleanup_state; }
AfterFirstPass ==
  /\ UNCHANGED macrovars
  /\ pc = "first_pass_done"
  /\ IF ret = 0
       THEN /\ file_success' = 0
            /\ pc' = "cleanup"
       ELSE /\ file_success' = file_success
            /\ pc' = "second_pass"
  /\ line_number' = 0
  /\ call' = NoCall
  /\ diag' = <<>>
  /\ UNCHANGED <<symbols, sym_def, ret, current_file, current_line, file_idx,
                 am, state, success, ob, ent, ext, outcome>>

\* run_second_pass: one iteration of while (fgets(...))
SecondPassLine ==
  /\ UNCHANGED macrovars
  /\ pc = "second_pass"
  /\ line_number < Len(am)
  /\ LET r == second_pass_line(symbols, state, am[line_number + 1])
     IN  /\ line_number' = line_number + 1
         /\ current_line' = line_number + 1
         /\ current_file' = AmFile(file_idx)
         /\ \E crash \in Crashes(r.fault) :
              IF crash THEN Crash
              ELSE /\ symbols' = r.tab
                   /\ state' = r.st
                   /\ call' = r.call
                   /\ ret' = r.ret
                   /\ diag' = Events(r.type, r.msgs, AmFile(file_idx),
                                     line_number + 1)
                   /\ UNCHANGED <<sym_def, pc, file_idx, success, file_success,
                                  ob, ent, ext, outcome>>
  /\ UNCHANGED am

\* run_second_pass: fgets returns NULL; return 1
SecondPassEnd ==
  /\ UNCHANGED macrovars
  /\ pc = "second_pass"
  /\ line_number = Len(am)
  /\ ret' = 1
  /\ pc' = "generate"
  /\ call' = NoCall
  /\ diag' = <<>>
  /\ UNCHANGED <<symbols, sym_def, current_file, current_line, file_idx, am,
                 line_number, state, success, file_success, ob, ent, ext,
                 outcome>>

\* generate_output_files: each fopen succeeds or fails
GenerateOutputFiles ==
  /\ UNCHANGED macrovars
  /\ pc = "generate"
  /\ \E ob_open, ent_open, ext_open \in BOOLEAN,
        g \in GarbagePatterns, clobbered \in BOOLEAN,
        crash \in Crashes(IF emitter_reads_outside(state)
                            THEN "overflow" ELSE "none") :
       IF ~ob_open
         THEN /\ diag' = Events("File", <<"Cannot write to object file">>,
                                current_file, current_line)
              /\ ret' = 0
              /\ file_success' = 0
              /\ pc' = "cleanup"
              /\ call' = NoCall
              /\ UNCHANGED <<ob, ent, ext, symbols, sym_def, state, success,
                             outcome, file_idx>>
       ELSE IF crash THEN Crash
       ELSE /\ ob' = File(ob_file(state, g, clobbered))
            /\ ent' = IF ent_open THEN File(ent_file(symbols, 1)) ELSE NoFile
            /\ ext' = IF ext_open THEN File(<<>>) ELSE NoFile
            /\ ret' = 1
            /\ diag' = <<>>
            /\ call' = NoCall
            /\ pc' = "cleanup"
            /\ UNCHANGED <<symbols, sym_def, state, success, file_success,
                           outcome, file_idx>>
  /\ UNCHANGED <<current_file, current_line, am, line_number>>

\* process_file: cleanup_state (free_assembler_state) / cleanup, the status
\* line, and main's i++
Cleanup ==
  /\ UNCHANGED macrovars
  /\ pc = "cleanup"
  /\ outcome' = Append(outcome,
                       IF file_success = 1 THEN "finished" ELSE "error")
  /\ file_idx' = file_idx + 1
  /\ pc' = "main"
  /\ call' = NoCall
  /\ diag' = <<>>
  /\ state' = NoState
  /\ UNCHANGED <<symbols, sym_def, ret, current_file, current_line, am,
                 line_number, success, file_success, ob, ent, ext>>

Next ==
  \/ ProcessFile
  \/ MainOption
  \/ MainReturn
  \/ FirstPassLine
  \/ FirstPassEnd
  \/ AfterFirstPass
  \/ SecondPassLine
  \/ SecondPassEnd
  \/ GenerateOutputFiles
  \/ Cleanup

Spec == Init /\ [][Next]_vars

(***************************************************************************)
(* The two passes over one file whose lines are directives of every kind:  *)
(* labelled, unlabelled, malformed, unknown, and followed by a comment.    *)
(***************************************************************************)
\* L: .extern X
LineLabelExtern ==
  <<"L", ":", " ", ".", "e", "x", "t", "e", "r", "n", " ", "X", "\n">>
\* .extern
LineExternNoArgs == <<".", "e", "x", "t", "e", "r", "n", "\n">>
\* .foo 1
LineUnknown == <<".", "f", "o", "o", " ", "1", "\n">>
\* B: .data 7,x
LineBadLabelled ==
  <<"B", ":", " ", ".", "d", "a", "t", "a", " ", "7", ",", "x", "\n">>
\* B: .string 'ab   (the closing quote is missing)
LineBadString ==
  <<"B", ":", " ", ".", "s", "t", "r", "i", "n", "g", " ", "\"", "a", "b", "\n">>
\* .entry X ; c
LineEntryComment ==
  <<".", "e", "n", "t", "r", "y", " ", "X", " ", ";", " ", "c", "\n">>
\* stop ; c
LineInstrComment == <<"s", "t", "o", "p", " ", ";", " ", "c", "\n">>

DirectiveLines == {LineData, LineCode, LineExtern, LineEntry, LineComment,
                   LineLabelExtern, LineExternNoArgs, LineUnknown,
                   LineBadLabelled, LineBadString, LineEntryComment,
                   LineInstrComment, LineNoArgs}

DirectiveLine == FirstPassLineOf(DirectiveLines)

PassNext ==
  \/ ProcessFile
  \/ DirectiveLine
  \/ FirstPassEnd
  \/ AfterFirstPass
  \/ SecondPassLine
  \/ SecondPassEnd

PassSpec == Init /\ [][PassNext]_vars

(***************************************************************************)
(* Properties of the symbol table (checked under SymSpec).                 *)
(***************************************************************************)
HasName(tab, n) == \E i \in 1..Len(tab) : tab[i].name = n
HasSymbolEvent(d) == \E k \in 1..Len(d) : d[k].type = "Symbol"

\* C1: after any sequence of symbol-table operations no symbol is of kind
\* extern and has its entry flag set.
C1_NoExternEntry ==
  \A i \in 1..Len(symbols) :
    ~(symbols[i].type = SYMBOL_EXTERN /\ symbols[i].entry_flag)

\* mark_entry was called on a symbol that is in the table as extern, and refused
C1_Witness ==
  /\ call.op = "mark_entry_symbol"
  /\ ret = 0
  /\ \E i \in 1..Len(symbols) :
        symbols[i].name = call.name /\ symbols[i].type = SYMBOL_EXTERN

\* C2: after any sequence of symbol-table operations the names in the table
\* are pairwise distinct.
C2_UniqueNames ==
  \A i, j \in 1..Len(symbols) :
    i # j => symbols[i].name # symbols[j].name

\* add was called with a name already in a table that still had room
C2_Witness ==
  /\ call.op = "add_symbol"
  /\ ret = 0
  /\ Len(symbols) >= 1
  /\ Len(symbols) < MAX_SYMBOLS
  /\ HasName(symbols, call.name)

\* C3: add(name, value, kind) fails with a symbol diagnostic and leaves the
\* table unchanged when the name exists or the table is full; otherwise it
\* appends exactly one symbol with that name, value and kind, whose entry
\* flag is set iff kind = entry.
C3_AddContract ==
  [][call'.op = "add_symbol" =>
       IF HasName(symbols, call'.name) \/ Len(symbols) >= MAX_SYMBOLS
         THEN /\ symbols' = symbols
              /\ ret' = 0
              /\ HasSymbolEvent(diag')
         ELSE /\ symbols' = Append(symbols,
                              Symbol(call'.name, call'.value, call'.type,
                                     call'.type = SYMBOL_ENTRY))
              /\ ret' = 1
              /\ diag' = <<>>]_vars

\* add of a fresh name was refused because the table was full
C3_Witness ==
  /\ call.op = "add_symbol"
  /\ ret = 0
  /\ Len(symbols) = MAX_SYMBOLS
  /\ ~HasName(symbols, call.name)
  /\ HasSymbolEvent(diag)

\* C4: mark_entry(name) fails with a symbol diagnostic and changes nothing when
\* name is absent or names an extern symbol; otherwise it sets that symbol's
\* entry flag and changes no other symbol, value or kind.
C4_MarkEntryContract ==
  [][call'.op = "mark_entry_symbol" =>
       IF \/ ~HasName(symbols, call'.name)
          \/ \E i \in 1..Len(symbols) :
                symbols[i].name = call'.name /\ symbols[i].type = SYMBOL_EXTERN
         THEN /\ symbols' = symbols
              /\ ret' = 0
              /\ HasSymbolEvent(diag')
         ELSE /\ Len(symbols') = Len(symbols)
              /\ \A i \in 1..Len(symbols) :
                    /\ symbols'[i].name = symbols[i].name
                    /\ symbols'[i].value = symbols[i].value
                    /\ symbols'[i].type = symbols[i].type
                    /\ symbols'[i].entry_flag =
                         (symbols[i].entry_flag \/ symbols[i].name = call'.name)
              /\ ret' = 1
              /\ diag' = <<>>]_vars

\* mark_entry succeeded on one symbol of a table that holds another,
\* unmarked symbol
C4_Witness ==
  /\ call.op = "mark_entry_symbol"
  /\ ret = 1
  /\ \E i, j \in 1..Len(symbols) :
        /\ symbols[i].name = call.name
        /\ symbols[i].entry_flag
        /\ symbols[i].type = SYMBOL_DATA
        /\ j # i
        /\ ~symbols[j].entry_flag

\* C5: adjust_data_addresses(ic) adds ic to the value of every data symbol and
\* changes no other value (an extern symbol keeps value 0), no name, kind or
\* entry flag, and not the symbol count.
C5_AdjustContract ==
  [][call'.op = "adjust_data_symbol_addresses" =>
       /\ Len(symbols') = Len(symbols)
       /\ \A i \in 1..Len(symbols) :
             /\ symbols'[i].name = symbols[i].name
             /\ symbols'[i].type = symbols[i].type
             /\ symbols'[i].entry_flag = symbols[i].entry_flag
             /\ symbols'[i].value =
                  IF symbols[i].type = SYMBOL_DATA
                    THEN symbols[i].value + call'.value
                    ELSE symbols[i].value]_vars

\* adjust ran on a table holding a data symbol and an extern symbol of value 0
C5_Witness ==
  /\ call.op = "adjust_data_symbol_addresses"
  /\ \E i, j \in 1..Len(symbols) :
        /\ symbols[i].type = SYMBOL_DATA
        /\ symbols[i].value >= call.value
        /\ symbols[j].type = SYMBOL_EXTERN
        /\ symbols[j].value = 0

(***************************************************************************)
(* Properties of the passes and of the emitter (checked under Spec).       *)
(* sym_def[i] records where symbols[i] was defined: the file, and the      *)
(* data and instruction counters when its line was processed.              *)
(***************************************************************************)
IsDataSymbol(i) == symbols[i].type = SYMBOL_DATA
IsCodeSymbol(i) == symbols[i].type = SYMBOL_CODE
DefinedHere(i) == sym_def[i].file = file_idx

\* C6: at the end of first pass, after finalization, every data symbol whose
\* label was on a .data/.string line processed when the data counter was d
\* has value d + IC + 100, IC being the instruction counter at the end of
\* first pass; hence its value is at least IC + 100.
C6_DataSymbolsAbsolute ==
  pc = "first_pass_done" =>
    \A i \in 1..Len(symbols) :
      IsDataSymbol(i) =>
        /\ symbols[i].value
             = sym_def[i].dc + state.instruction_counter + START_ADDRESS
        /\ symbols[i].value >= state.instruction_counter + START_ADDRESS

\* C7 as stated: during first pass, before finalization, a data symbol holds
\* the data counter DC of the moment of its definition (0 for a label on the
\* first data line).
C7_StoredRelative ==
  pc = "first_pass" =>
    \A i \in 1..Len(symbols) :
      (IsDataSymbol(i) /\ DefinedHere(i)) =>
        symbols[i].value = sym_def[i].dc

\* C7: during first pass, before finalization, a data symbol defined by the
\* file being assembled holds DC + 100, DC being the data counter of the
\* moment of its definition; finalization adds the instruction counter, and
\* nothing else, to it.
C7_StoredWithBase ==
  \A i \in 1..Len(symbols) :
    (IsDataSymbol(i) /\ DefinedHere(i)) =>
      /\ pc = "first_pass" =>
           symbols[i].value = sym_def[i].dc + START_ADDRESS
      /\ pc = "first_pass_done" =>
           symbols[i].value
             = (sym_def[i].dc + START_ADDRESS) + state.instruction_counter

\* a data symbol of the file being assembled that awaits finalization, defined
\* after the first pass had counted instructions or stored data
C7_Witness ==
  /\ pc = "first_pass"
  /\ \E i \in 1..Len(symbols) :
       /\ IsDataSymbol(i)
       /\ DefinedHere(i)
       /\ sym_def[i].dc + sym_def[i].ic > 0
       /\ symbols[i].value = sym_def[i].dc + START_ADDRESS

\* C8: at the end of first pass, every symbol s of kind code satisfies
\* 100 <= value(s) < IC + 100.
C8_CodeSymbolsInCode ==
  pc = "first_pass_done" =>
    \A i \in 1..Len(symbols) :
      IsCodeSymbol(i) =>
        /\ START_ADDRESS <= symbols[i].value
        /\ symbols[i].value < state.instruction_counter + START_ADDRESS

\* the address field of a line of the .ob artifact
ob_address(line) == SubSeq(line, 1, 4)
\* the line of the .ob artifact that prints data word d
ob_data_line(d) == ob.lines[1 + state.instruction_counter + d + 1]

\* C9: at emission, the value of every data symbol defined at data offset d
\* equals the address printed in .ob for data word d: the data block starts
\* where the code block counted by first pass ends.
C9_DataSymbolIsObAddress ==
  (pc = "cleanup" /\ ob.written) =>
    \A i \in 1..Len(symbols) :
      (IsDataSymbol(i) /\ DefinedHere(i)
         /\ sym_def[i].dc < state.data_counter) =>
        ob_address(ob_data_line(sym_def[i].dc)) = Fmt04d(symbols[i].value)

\* C10: the .ob artifact is a first line IC DC, then exactly IC code-word
\* lines with addresses 100 .. 100+IC-1 in ascending order, then exactly DC
\* data-word lines with addresses 100+IC .. 100+IC+DC-1 in ascending order,
\* each line carrying the packed 24-bit value of the word in that slot of
\* the image.
C10_ObLayout ==
  (pc = "cleanup" /\ ob.written) =>
    LET IC == state.instruction_counter
        DC == state.data_counter
    IN  /\ Len(ob.lines) = 1 + IC + DC
        /\ ob.lines[1] = FmtD(IC) \o <<" ">> \o FmtD(DC) \o <<"\n">>
        /\ \A k \in 0..(IC - 1) :
             /\ k < state.code_capacity
             /\ ob.lines[2 + k]
                  = Fmt04d(START_ADDRESS + k) \o <<" ">>
                      \o Fmt06X(get_full_word_value(state.code_image[k + 1]))
                      \o <<"\n">>
        /\ \A k \in 0..(DC - 1) :
             /\ k < state.data_capacity
             /\ ob.lines[2 + IC + k]
                  = Fmt04d(START_ADDRESS + IC + k) \o <<" ">>
                      \o Fmt06X(get_full_word_value(state.data_image[k + 1]))
                      \o <<"\n">>

\* the file being assembled consists of this one line and its .ob was written
OnlyLine(raw) == pc = "cleanup" /\ ob.written /\ am = <<raw>>
\* the text of a line of an artifact, without its newline
Text(line) == SubSeq(line, 1, Len(line) - 1)
\* the lines of the data section of the .ob artifact
ob_data_lines ==
  [d \in 1..state.data_counter |->
     Text(ob.lines[1 + state.instruction_counter + d])]

\* C11 as stated: assembling a source whose only line is LEN: .data 7, -3, 42
\* produces the .ob data lines 0100 000038, 0101 0FFFFD and 0102 000150.
C11_LenExampleAsStated ==
  OnlyLine(LineLen) =>
    ob_data_lines =
      << <<"0","1","0","0"," ","0","0","0","0","3","8">>,
         <<"0","1","0","1"," ","0","F","F","F","F","D">>,
         <<"0","1","0","2"," ","0","0","0","1","5","0">> >>

\* C11: assembling a source whose only line is LEN: .data 7, -3, 42 produces
\* the .ob data lines 0100 00003C, 0101 FFFFEC and 0102 000154: each value
\* masked to 21 bits, shifted left by 3, with ARE = 4 in the low bits.
C11_LenExample ==
  OnlyLine(LineLen) =>
    ob_data_lines =
      << <<"0","1","0","0"," ","0","0","0","0","3","C">>,
         <<"0","1","0","1"," ","F","F","F","F","E","C">>,
         <<"0","1","0","2"," ","0","0","0","1","5","4">> >>

C11_Witness ==
  /\ OnlyLine(LineLen)
  /\ Len(ob.lines) = 4
  /\ state.data_counter = 3

(***************************************************************************)
(* The machine word functions applied to arguments of every shape          *)
(* (specification WordSpec): values below, at and above the field widths,  *)
(* and negative values, which arrive as large unsigned ones.               *)
(***************************************************************************)
WordContents ==
  {-(2^20) - 1, -(2^20), -3, -1, 0, 1, 7, 42, 2^20 - 1, 2^20,
   2^CONTENT_BITS - 1, 2^CONTENT_BITS, 2^CONTENT_BITS + 5, 2^WORD_SIZE + 9}
WordAREs == 0..9

\* init_machine_word(&word, content, are); get_full_word_value(&word)
PackWord ==
  \E c \in WordContents, a \in WordAREs :
    /\ call' = Call("init_machine_word", NULL, c, a)
    /\ ret' = get_full_word_value(init_machine_word(c, a))
    /\ UNCHANGED <<symbols, sym_def, diag>>
    /\ UNCHANGED pipevars
    /\ UNCHANGED macrovars

WordNext == PackWord

WordSpec == Init /\ [][WordNext]_vars

\* C12: for every content c and ARE value a, the packed value of a word
\* initialised with (c, a) equals ((c mod 2^21) * 8) + (a mod 8), which
\* always fits in 24 bits.
C12_PackedValue ==
  call.op = "init_machine_word" =>
    /\ ret = ((call.value % (2^21)) * 8) + (call.type % 8)
    /\ ret >= 0
    /\ ret < 2^24

\* a word whose content and ARE both exceed their fields
C12_Witness ==
  /\ call.op = "init_machine_word"
  /\ call.value >= 2^21
  /\ call.type >= 8
  /\ ret = ((call.value % (2^21)) * 8) + (call.type % 8)

\* the symbols whose entry flag is set, in the order of the table
EntrySymbols == SelectSeq(symbols, LAMBDA sym : sym.entry_flag)

instruction_operand(raw) ==
  LET line == normalize_string(raw, TRUE)
      pos == skip_whitespace(line, 0)
      lab == extract_label(line, pos)
      dir == extract_directive(line, lab.pos)
      mnemonic_end == scan_token(line, dir.pos)
  IN  IF At(line, pos) = NUL \/ At(line, pos) = COMMENT_CHAR THEN NULL
      ELSE IF dir.directive # NULL THEN NULL
      ELSE extract_arguments(line, mnemonic_end).args

IsExternName(name) ==
  \E i \in 1..Len(symbols) :
    symbols[i].type = SYMBOL_EXTERN /\ symbols[i].name = name

\* the instruction lines of the file that refer to an extern symbol, in order
ExternReferences ==
  SelectSeq(am, LAMBDA raw : IsExternName(instruction_operand(raw)))

\* C14: the .ext artifact contains one line per reference to an extern symbol
\* made by an instruction, in reference order, each beginning with the name
\* of the symbol referred to.
C14_ExtLines ==
  (pc = "cleanup" /\ ext.written) =>
    /\ Len(ext.lines) = Len(ExternReferences)
    /\ \A k \in 1..Len(ExternReferences) :
         LET name == instruction_operand(ExternReferences[k])
         IN  SubSeq(ext.lines[k], 1, Len(name) + 1) = name \o <<" ">>

\* the table as the file being assembled found it: the symbols defined by
\* earlier files of the batch
RECURSIVE InheritedCount(_)
InheritedCount(i) ==
  IF i > Len(symbols) THEN 0
  ELSE (IF DefinedHere(i) THEN 0 ELSE 1) + InheritedCount(i + 1)

InheritedSymbols == SubSeq(symbols, 1, InheritedCount(1))

\* the number of symbol diagnostics the first pass reports for lines k.. of
\* the file, run from table tab and state st
RECURSIVE first_pass_symbol_events(_, _, _, _)
first_pass_symbol_events(tab, st, lines, k) ==
  IF k > Len(lines) THEN 0
  ELSE LET r == first_pass_line(tab, st, lines[k])
       IN  (IF r.type = "Symbol" THEN Len(r.msgs) ELSE 0)
             + first_pass_symbol_events(r.tab, r.st, lines, k + 1)

\* first pass reported a symbol diagnostic for a line of this file
SymbolDiagnosticInFirstPass ==
  first_pass_symbol_events(InheritedSymbols, init_assembler_state(0), am, 1) > 0

AfterFirstPassOfFile == pc \in {"second_pass", "generate", "cleanup"}

\* C15: if any symbol diagnostic is reported during first pass (a duplicate
\* label, or a name defined both as a label and by .extern), first pass
\* returns failure, the file is reported as failed, and no .ob/.ent/.ext is
\* emitted for it.
C15_SymbolErrorFailsFile ==
  (AfterFirstPassOfFile /\ SymbolDiagnosticInFirstPass) =>
    /\ pc = "cleanup"
    /\ file_success = 0
    /\ ~ob.written
    /\ ~ent.written
    /\ ~ext.written

\* second pass reports a symbol diagnostic for a line of this file: whether
\* mark_entry_symbol fails depends on the names and types in the table only,
\* which second pass does not change
BadEntryInSecondPass ==
  \E k \in 1..Len(am) :
    Len(second_pass_line(symbols, state, am[k]).msgs) > 0

\* C16: in second pass, a .entry directive naming a symbol that is absent
\* from the table or is of kind extern makes second pass fail, so the file is
\* reported as failed and no output artifacts are emitted.
C16_BadEntryFailsFile ==
  (pc \in {"generate", "cleanup"} /\ BadEntryInSecondPass) =>
    /\ pc = "cleanup"
    /\ file_success = 0
    /\ ~ob.written
    /\ ~ent.written
    /\ ~ext.written

\* the first pass has just processed this line
JustProcessed(raw) ==
  /\ pc = "first_pass"
  /\ Len(am) > 0
  /\ am[Len(am)] = raw
  /\ current_line = Len(am)

\* C17: a .data line containing an integer outside [-2^20, 2^20-1] (for
\* example .data 1048576) causes a diagnostic of kind range to be reported.
C17_RangeDiagnostic ==
  JustProcessed(LineBadData) =>
    \E k \in 1..Len(diag) : diag[k].type = "Range"

\* the integers written on a data line, read off its text one by one (sign,
\* decimal digits, comma), and the character codes of a string line
RECURSIVE text_integers(_, _)
text_integers(s, p) ==
  IF At(s, p) = NUL \/ At(s, p) = "\n" THEN <<>>
  ELSE IF isdigit(At(s, p)) \/ At(s, p) \in {"-", "+"}
    THEN LET d == strtol_digits(s, IF isdigit(At(s, p)) THEN p ELSE p + 1, 0)
         IN  <<IF At(s, p) = "-" THEN -d.value ELSE d.value>>
               \o text_integers(s, d.endptr)
  ELSE text_integers(s, p + 1)

line_values(raw) ==
  LET line == remove_comment(normalize_string(raw, TRUE))
      lab == extract_label(line, skip_whitespace(line, 0))
      dir == extract_directive(line, lab.pos)
      arg == extract_arguments(line, dir.pos)
  IN  IF dir.directive = DATA_DIRECTIVE /\ arg.args # NULL
        THEN text_integers(arg.args, 0)
      ELSE IF dir.directive = STRING_DIRECTIVE /\ arg.args # NULL
        THEN parse_string_value(arg.args, MAX_STRING_LENGTH).values
      ELSE <<>>

\* C18: every word appended to the data image during first pass encodes a
\* value that lay in [-2^20, 2^20-1] when parsed and carries ARE = 4
\* (Absolute); a line holding a value outside that range appends nothing.
C18_DataWordsInRange ==
  [][(pc = "first_pass" /\ pc' = "first_pass"
        /\ state'.data_counter > state.data_counter) =>
       LET vals == line_values(am'[Len(am')])
           words == SubSeq(state'.data_image, state.data_counter + 1,
                           state'.data_counter)
       IN  /\ Len(vals) = Len(words)
           /\ \A k \in 1..Len(vals) :
                /\ vals[k] >= -(2^20)
                /\ vals[k] <= 2^20 - 1
                /\ words[k] = [content |-> vals[k] % (2^21), ARE |-> 4]]_vars

\* a negative value of a data line stored as a word of the data image
C18_Witness ==
  /\ JustProcessed(LineData)
  /\ state.data_counter >= 2
  /\ state.data_image[state.data_counter] = [content |-> 2^21 - 3, ARE |-> 4]

\* the step writes an artifact
WritesArtifact ==
  \/ ob'.written /\ ~ob.written
  \/ ent'.written /\ ~ent.written
  \/ ext'.written /\ ~ext.written

\* the stages of a file run in order, each only after the earlier ones
\* returned success, and the file's end is followed by the next argument
StagesGated ==
  /\ (pc' = "first_pass" /\ pc # "first_pass") =>
       (pc = "main" /\ file_success' = 1)
  /\ (pc' = "first_pass_done") => (pc = "first_pass")
  /\ (pc' = "second_pass" /\ pc # "second_pass") =>
       (pc = "first_pass_done" /\ ret = 1 /\ file_success = 1)
  /\ (pc' = "generate") =>
       (pc = "second_pass" /\ ret' = 1 /\ file_success = 1)
  /\ WritesArtifact => (pc = "generate" /\ file_success = 1)
  /\ (pc = "cleanup") =>
       /\ pc' = "main"
       /\ file_idx' = file_idx + 1
       /\ outcome' = Append(outcome, IF file_success = 1 THEN "finished"
                                     ELSE "error")

\* the file being processed is not the last one, and whatever happens in it
\* leaves the run on its way to the remaining files
RemainingFilesReached ==
  (file_idx < NumFiles
     /\ pc \in {"first_pass", "first_pass_done", "second_pass", "generate"}) =>
    pc' \in {"first_pass", "first_pass_done", "second_pass", "generate",
             "cleanup"}

\* the order and the gating of the stages alone
C19_StagesInOrder == [][StagesGated]_vars

\* C19: for each input file the stages run in the order preprocess, first
\* pass, second pass, emit, and a stage runs only if every earlier stage of
\* that file succeeded (so .ob/.ent/.ext are written only after both passes
\* succeeded); a failure in one file does not prevent the remaining files of
\* the batch from being processed.
C19_StageOrder == [][StagesGated /\ RemainingFilesReached]_vars

\* the first pass of a file is about to read its first line
FirstPassStarts == pc = "first_pass" /\ Len(am) = 0

\* C20: when several files are processed in one invocation, the symbol table
\* is empty at the start of each file's first pass, so that no symbol of an
\* earlier file is in the table a later file's .ent is written from.
C20_TableEmptyAtStart ==
  /\ FirstPassStarts => Len(symbols) = 0
  /\ (pc = "cleanup" /\ ent.written) =>
       \A i \in 1..Len(symbols) : DefinedHere(i)

(***************************************************************************)
(* Diagnostics context (errors.c) across files and passes.                 *)
(***************************************************************************)
\* the names under which the file being processed is known: the argument
\* and the path of its expanded text
OwnNames == {<<Argv[file_idx]>>, AmFile(file_idx)}

InPass == pc \in {"first_pass", "first_pass_done", "second_pass"}

\* C21: every diagnostic emitted while a file is processed, preprocessing
\* included, carries that file's own name, and in the passes the number of
\* the line being processed; never a name or number left over from a file
\* or pass processed before.
C21_DiagnosticsTagged ==
  \A k \in 1..Len(diag) :
    /\ file_idx <= NumFiles => diag[k].file \in OwnNames
    /\ InPass => diag[k].line = line_number

(***************************************************************************)
(* Macro table and preprocessor (macro.c, preprocessor.c).                 *)
(***************************************************************************)
\* capacity of the macro table; stands for MAX_MACROS (100 in macro.h)
MAX_MACROS == 2
\* capacity of a macro body; stands for MAX_MACRO_LINES (100 in macro.h)
MAX_MACRO_LINES == 2
MAX_MACRO_NAME == 31
\* longest line fgets delivers whole, newline excluded; stands for
\* MAX_LINE_LENGTH (81 in globals.h)
MAX_LINE_LENGTH == 40

\* strncmp(s + p, lit, strlen(lit)) == 0
strncmp_eq(s, p, lit) == \A k \in 1..Len(lit) : At(s, p + k - 1) = lit[k]

\* strcspn(s + p, " \t\r\n")
RECURSIVE strcspn_blank(_, _)
strcspn_blank(s, p) ==
  IF At(s, p) = NUL \/ At(s, p) \in {" ", "\t", "\r", "\n"} THEN 0
  ELSE 1 + strcspn_blank(s, p + 1)

MCRO == <<"m", "c", "r", "o">>
ENDMCRO == <<"e", "n", "d", "m", "c", "r", "o">>

is_macro_definition(line) == strncmp_eq(line, skip_isspace(line, 0), MCRO)

is_macro_end(line) == strncmp_eq(line, skip_isspace(line, 0), ENDMCRO)

is_valid_macro_name(name) ==
  /\ isalpha(At(name, 0))
  /\ \A i \in 1..(Len(name) - 1) : isalnum(At(name, i)) \/ At(name, i) = "_"
  /\ Len(name) <= MAX_MACRO_NAME

\* the status and, on success, the name copied to the buffer
parse_macro_definition(line, name_size) ==
  LET start == skip_isspace(line, Len(MCRO))
      len == strcspn_blank(line, start)
  IN  IF len = 0 \/ len >= name_size
        THEN [status |-> "MACRO_ERROR_NAME", name |-> <<>>]
        ELSE [status |-> "MACRO_SUCCESS",
              name |-> Slice(line, start, start + len)]

\* the slot (1-based) of the macro called name, 0 for NULL
find_macro(table, name) ==
  IF \E i \in 1..Len(table) : table[i].name = name
    THEN CHOOSE i \in 1..Len(table) :
           /\ table[i].name = name
           /\ \A j \in 1..(i - 1) : table[j].name # name
    ELSE 0

\* the table after the call and the slot returned (0 for NULL)
add_macro_unchecked(table, name) ==
  IF ~is_valid_macro_name(name) THEN [table |-> table, macro |-> 0]
  ELSE [table |-> Append(table, [name |-> name, lines |-> <<>>]),
        macro |-> Len(table) + 1]

add_macro(table, name) ==
  IF ~is_valid_macro_name(name) THEN [table |-> table, macro |-> 0]
  ELSE IF find_macro(table, name) # 0 THEN [table |-> table, macro |-> 0]
  ELSE IF Len(table) >= MAX_MACROS THEN [table |-> table, macro |-> 0]
  ELSE [table |-> Append(table,
                         [name |-> IF Len(name) > MAX_MACRO_NAME
                                     THEN Slice(name, 0, MAX_MACRO_NAME)
                                     ELSE name,
                          lines |-> <<>>]),
        macro |-> Len(table) + 1]

\* the macro after the call and the status returned
add_macro_line(macro, line) ==
  IF Len(macro.lines) >= MAX_MACRO_LINES
    THEN [macro |-> macro, status |-> "MACRO_ERROR_LIMIT"]
    ELSE [macro |-> [macro EXCEPT !.lines = Append(@, line)],
          status |-> "MACRO_SUCCESS"]

\* fgets(line, sizeof(line), input) with char line[MAX_LINE_LENGTH + 2]: the
\* successive reads a physical line is delivered in
RECURSIVE fgets(_)
fgets(rest) ==
  IF Len(rest) = 0 THEN <<>>
  ELSE LET n == IF Len(rest) <= MAX_LINE_LENGTH + 1
                  THEN Len(rest) ELSE MAX_LINE_LENGTH + 1
       IN  <<SubSeq(rest, 1, n)>> \o fgets(SubSeq(rest, n + 1, Len(rest)))

\* fprintf(output, "%s\n", lines[j]) for each line of a body
RECURSIVE print_lines(_)
print_lines(lines) ==
  IF Len(lines) = 0 THEN <<>>
  ELSE lines[1] \o <<"\n">> \o print_lines(Tail(lines))

\* the state of expand_macros between two reads
Expansion(table, current, out, status, msgs) ==
  [table |-> table, current |-> current, output |-> out,
   status |-> status, msgs |-> msgs]

Returned(m, status, msgs) ==
  [m EXCEPT !.status = status, !.msgs = m.msgs \o msgs]

\* one iteration of the loop of expand_macros on the line fgets delivered
expand_line(m, line) ==
  LET normalized == normalize_string(line, TRUE)
  IN  IF is_macro_definition(normalized)
        THEN IF m.current # 0
               THEN Returned(m, "MACRO_ERROR_NESTING",
                             <<"Nested macro definition">>)
               ELSE LET p == parse_macro_definition(normalized,
                                                    MAX_MACRO_NAME + 1)
                        a == add_macro(m.table, p.name)
                    IN  IF p.status # "MACRO_SUCCESS"
                          THEN Returned(m, "MACRO_ERROR_NAME", <<>>)
                        ELSE IF a.macro = 0
                          THEN Returned(m, "MACRO_ERROR_MEMORY", <<>>)
                        ELSE [m EXCEPT !.table = a.table,
                                       !.current = a.macro]
      ELSE IF is_macro_end(normalized)
        THEN IF m.current = 0
               THEN Returned(m, "MACRO_ERROR_SYNTAX",
                             <<"Unexpected macro end">>)
               ELSE [m EXCEPT !.current = 0]
      ELSE IF m.current # 0
        THEN LET r == add_macro_line(m.table[m.current], normalized)
             IN  IF r.status # "MACRO_SUCCESS"
                   THEN Returned(m, "MACRO_ERROR_MEMORY", <<>>)
                   ELSE [m EXCEPT !.table[m.current] = r.macro]
      ELSE LET i == find_macro(m.table, normalized)
           IN  IF i # 0
                 THEN [m EXCEPT !.output = @ \o print_lines(m.table[i].lines)]
                 ELSE [m EXCEPT !.output = @ \o line]

\* the loop of expand_macros over the reads of one physical line; it is left
\* at the first return
RECURSIVE expand_reads(_, _)
expand_reads(m, reads) ==
  IF Len(reads) = 0 \/ m.status # "reading" THEN m
  ELSE expand_reads(expand_line(m, reads[1]), Tail(reads))

\* physical lines of a source file, newline included
\* mcro m
SrcMcroM == <<"m", "c", "r", "o", " ", "m", "\n">>
\* mcro n
SrcMcroN == <<"m", "c", "r", "o", " ", "n", "\n">>
\* mcro k
SrcMcroK == <<"m", "c", "r", "o", " ", "k", "\n">>
\* endmcro
SrcEndmcro == <<"e", "n", "d", "m", "c", "r", "o", "\n">>
\* a line holding only the name m, with blanks around it
SrcCallM == <<" ", "m", " ", "\n">>
\* inc r1 written with surplus blanks
SrcSpaced == <<" ", "i", "n", "c", " ", " ", "r", "1", "\n">>
\* mcro without a name
SrcMcroAbsent == <<"m", "c", "r", "o", "\n">>
\* mcro 1x: a name that starts with a digit
SrcMcroDigit == <<"m", "c", "r", "o", " ", "1", "x", "\n">>
\* mcro mcro: the name is a reserved keyword
SrcMcroMcro == <<"m", "c", "r", "o", " ", "m", "c", "r", "o", "\n">>
\* mcro followed by a name of MAX_MACRO_NAME + 1 letters
SrcMcroLong == <<"m", "c", "r", "o", " ">> \o Repeat("a", MAX_MACRO_NAME + 1) \o <<"\n">>
\* a line of MAX_LINE_LENGTH + 1 letters followed by mcro n: longer than
\* the buffer of fgets, it is delivered in two reads
SrcLong == Repeat("a", MAX_LINE_LENGTH + 1) \o SrcMcroN

SourceLines == {SrcMcroM, SrcMcroN, SrcMcroK, SrcEndmcro, SrcCallM,
                SrcSpaced, SrcMcroAbsent, SrcMcroDigit, SrcMcroMcro,
                SrcMcroLong, SrcLong}

\* physical lines read from one source file: enough to fill the table
MaxSourceLines == 2 * MAX_MACROS + 1

\* expand_macros: fgets delivers the next physical line, in one or more
\* reads, and the loop body runs on each of them
ExpandLine ==
  /\ macro_status = "reading"
  /\ Len(input) < MaxSourceLines
  /\ \E raw \in SourceLines :
       LET m == expand_reads(Expansion(macro_table, current_macro, output,
                                       "reading", <<>>), fgets(raw))
       IN  /\ input' = Append(input, raw)
           /\ macro_table' = m.table
           /\ current_macro' = m.current
           /\ output' = m.output
           /\ macro_status' = m.status
           /\ diag' = Events("Syntax", m.msgs, current_file, current_line)
  /\ UNCHANGED <<symbols, sym_def, call, ret>>
  /\ UNCHANGED pipevars

\* expand_macros: fgets returns NULL at the end of the input
ExpandEnd ==
  /\ macro_status = "reading"
  /\ macro_status' = IF current_macro # 0 THEN "MACRO_ERROR_SYNTAX"
                                          ELSE "MACRO_SUCCESS"
  /\ diag' = <<>>
  /\ UNCHANGED <<input, macro_table, current_macro, output>>
  /\ UNCHANGED <<symbols, sym_def, call, ret>>
  /\ UNCHANGED pipevars

MacroNext ==
  \/ ExpandLine
  \/ ExpandEnd

MacroSpec == Init /\ [][MacroNext]_vars

(***************************************************************************)
(* Properties of the preprocessor (checked under MacroSpec).               *)
(***************************************************************************)
\* a physical line whose normalized form starts with mcro, with endmcro
IsMcroLine(raw) == is_macro_definition(normalize_string(raw, TRUE))
IsEndmcroLine(raw) ==
  ~IsMcroLine(raw) /\ is_macro_end(normalize_string(raw, TRUE))

\* the step read one more physical line; the line it read
ReadsLine == Len(input') = Len(input) + 1
LastRead == input'[Len(input')]
\* the step met the end of the input
MeetsEnd == macro_status = "reading" /\ macro_status' # "reading"
                                     /\ input' = input
Failed(status) == status \notin {"reading", "MACRO_SUCCESS"}

\* the mcro and endmcro lines of a text, in order
RECURSIVE Marks(_)
Marks(text) ==
  IF Len(text) = 0 THEN <<>>
  ELSE (IF IsMcroLine(text[1]) THEN <<"mcro">>
        ELSE IF IsEndmcroLine(text[1]) THEN <<"endmcro">>
        ELSE <<>>) \o Marks(Tail(text))

StrictlyAlternate(marks) ==
  /\ Len(marks) % 2 = 0
  /\ \A k \in 1..Len(marks) :
       marks[k] = IF k % 2 = 1 THEN "mcro" ELSE "endmcro"

\* the three failures the preprocessor's state machine has
FailsOnNesting ==
  ReadsLine /\ IsMcroLine(LastRead) /\ current_macro # 0
    => Failed(macro_status')
FailsOnStrayEnd ==
  ReadsLine /\ IsEndmcroLine(LastRead) /\ current_macro = 0
    => Failed(macro_status')
FailsOnOpenEnd ==
  MeetsEnd /\ current_macro # 0 => Failed(macro_status')

C22_FailureCases ==
  [][FailsOnNesting /\ FailsOnStrayEnd /\ FailsOnOpenEnd]_vars

\* C22: preprocessing fails on a mcro line met while a definition is open,
\* on an endmcro line met while none is open, and at the end of the input
\* while a definition is open; hence it succeeds only if the mcro and
\* endmcro lines of the input strictly alternate, from mcro to endmcro.
C22_Alternation ==
  [][/\ FailsOnNesting
     /\ FailsOnStrayEnd
     /\ FailsOnOpenEnd
     /\ macro_status' = "MACRO_SUCCESS" => StrictlyAlternate(Marks(input'))
    ]_vars

\* the macros of a text as the claim describes them: each mcro line names
\* one, the lines up to the next endmcro line are its body (normalized)
Described(defs, open, out) == [defs |-> defs, open |-> open, out |-> out]

\* the slots of defs called name
Named(defs, name) == {i \in 1..Len(defs) : defs[i].name = name}

\* what the description of the output makes of one physical line
describe_line(d, raw) ==
  LET normalized == normalize_string(raw, TRUE)
  IN  IF IsMcroLine(raw)
        THEN Described(
               Append(d.defs,
                      [name |-> parse_macro_definition(normalized,
                                                       MAX_MACRO_NAME + 1).name,
                       lines |-> <<>>]),
               Len(d.defs) + 1, d.out)
      ELSE IF IsEndmcroLine(raw) THEN Described(d.defs, 0, d.out)
      ELSE IF d.open # 0
        THEN Described([d.defs EXCEPT ![d.open].lines = Append(@, normalized)],
                       d.open, d.out)
      ELSE IF Named(d.defs, normalized) # {}
        THEN Described(d.defs, 0,
                       d.out \o print_lines(
                         d.defs[CHOOSE i \in Named(d.defs, normalized) :
                                  TRUE].lines))
      ELSE Described(d.defs, 0, d.out \o raw)

RECURSIVE describe_text(_, _)
describe_text(d, text) ==
  IF Len(text) = 0 THEN d
  ELSE describe_text(describe_line(d, text[1]), Tail(text))

DescribedOutput(text) == describe_text(Described(<<>>, 0, <<>>), text).out

\* the lines of a character stream, each without its newline
RECURSIVE SplitLines(_, _)
SplitLines(chars, line) ==
  IF Len(chars) = 0 THEN (IF Len(line) = 0 THEN <<>> ELSE <<line>>)
  ELSE IF chars[1] = "\n" THEN <<line>> \o SplitLines(Tail(chars), <<>>)
  ELSE SplitLines(Tail(chars), Append(line, chars[1]))

NoKeywordLine(chars) ==
  LET lines == SplitLines(chars, <<>>)
  IN  \A k \in 1..Len(lines) :
        ~IsMcroLine(lines[k]) /\ ~IsEndmcroLine(lines[k])

\* no physical line read so far exceeds what fgets delivers whole
FitsBuffer(text) ==
  \A k \in 1..Len(text) : Len(text[k]) <= MAX_LINE_LENGTH + 1

\* the description of the output, for sources of lines that fit the buffer
C23_OutputOfShortLines ==
  macro_status = "MACRO_SUCCESS" /\ FitsBuffer(input) =>
    /\ output = DescribedOutput(input)
    /\ NoKeywordLine(output)

\* C23: on successful preprocessing the output is the input with nothing
\* emitted for mcro lines, endmcro lines and lines inside a definition, each
\* line outside a definition whose normalized form is a defined macro name
\* replaced by that macro's body lines, each followed by a newline, and
\* every other line copied unchanged; it holds no mcro or endmcro line.
C23_Output ==
  macro_status = "MACRO_SUCCESS" =>
    /\ output = DescribedOutput(input)
    /\ NoKeywordLine(output)

\* is_valid_label (text_parser.c)
is_valid_label(str) ==
  IF str = NULL \/ ~isalpha(At(str, 0)) THEN 0
  ELSE IF Len(str) > MAX_LABEL_LENGTH THEN 0
  ELSE IF \E i \in 1..(Len(str) - 1) :
            ~isalnum(At(str, i)) /\ At(str, i) # "_" THEN 0
  ELSE 1

\* the word that follows mcro on a mcro line (empty when there is none)
MacroNameOf(raw) ==
  LET normalized == normalize_string(raw, TRUE)
      start == skip_isspace(normalized, Len(MCRO))
  IN  Slice(normalized, start, start + strcspn_blank(normalized, start))

\* the keywords of the dialect the source names
ReservedKeywords ==
  {MCRO, ENDMCRO, DATA_DIRECTIVE, STRING_DIRECTIVE, ENTRY_DIRECTIVE,
   EXTERN_DIRECTIVE}

BadMacroName(name) ==
  \/ Len(name) = 0
  \/ Len(name) > MAX_MACRO_NAME
  \/ is_valid_label(name) = 0
  \/ name \in ReservedKeywords

\* C24: a mcro line whose name is absent, longer than 31 characters, not
\* lexically a valid label, or a reserved keyword makes preprocessing fail
\* and adds no macro.
C24_BadNameFails ==
  [][ReadsLine /\ IsMcroLine(LastRead) /\ BadMacroName(MacroNameOf(LastRead))
       => Failed(macro_status') /\ macro_table' = macro_table]_vars

\* the same without the reserved keywords
C24_UnlexicalNameFails ==
  [][(/\ ReadsLine
      /\ IsMcroLine(LastRead)
      /\ BadMacroName(MacroNameOf(LastRead))
      /\ MacroNameOf(LastRead) \notin ReservedKeywords)
       => Failed(macro_status') /\ macro_table' = macro_table]_vars

\* the table's names are pairwise distinct and its capacities are respected
TableWithinLimits(table) ==
  /\ \A i, j \in 1..Len(table) : table[i].name = table[j].name => i = j
  /\ Len(table) <= MAX_MACROS
  /\ \A i \in 1..Len(table) : Len(table[i].lines) <= MAX_MACRO_LINES

\* the step read a mcro line outside a definition that names a macro the
\* table holds already
ReadsDuplicate ==
  /\ ReadsLine
  /\ IsMcroLine(LastRead)
  /\ current_macro = 0
  /\ find_macro(macro_table, MacroNameOf(LastRead)) # 0

\* the step read a mcro line outside a definition while the table is full
ReadsMacroBeyondTable ==
  /\ ReadsLine
  /\ IsMcroLine(LastRead)
  /\ current_macro = 0
  /\ Len(macro_table) = MAX_MACROS

\* the step read a body line of a definition whose body is full
ReadsLineBeyondBody ==
  /\ ReadsLine
  /\ ~IsMcroLine(LastRead)
  /\ ~IsEndmcroLine(LastRead)
  /\ current_macro # 0
  /\ Len(macro_table[current_macro].lines) = MAX_MACRO_LINES

\* C25: the names of the macro table are pairwise distinct, it holds at most
\* MAX_MACROS macros and each body at most MAX_MACRO_LINES lines; a mcro
\* line with a name already defined, a macro beyond the table's capacity
\* and a body line beyond a body's capacity each make preprocessing fail.
C25_TableLimits ==
  [][/\ TableWithinLimits(macro_table')
     /\ ReadsDuplicate => Failed(macro_status')
     /\ ReadsMacroBeyondTable => Failed(macro_status')
     /\ ReadsLineBeyondBody => Failed(macro_status')]_vars

\* the table is full and a mcro line with a further, valid name was refused
C25_Witness ==
  /\ Failed(macro_status)
  /\ Len(macro_table) = MAX_MACROS
  /\ current_macro = 0
  /\ Len(input) > 0
  /\ IsMcroLine(input[Len(input)])
  /\ ~BadMacroName(MacroNameOf(input[Len(input)]))
  /\ find_macro(macro_table, MacroNameOf(input[Len(input)])) = 0

\* a physical line of more characters than the dialect allows: 80, one less
\* than MAX_LINE_LENGTH
TooLong(raw) == Len(Text(raw)) > MAX_LINE_LENGTH - 1

\* C26: every input line longer than 80 characters is reported as a syntax
\* (line-length) error and makes the file fail.
C26_LongLineFails ==
  [][ReadsLine /\ TooLong(LastRead)
       => /\ Failed(macro_status')
          /\ \E k \in 1..Len(diag') : diag'[k].type = "Syntax"]_vars

(***************************************************************************)
(* Labels (checked under Spec).                                            *)
(***************************************************************************)
\* C27: a label longer than 31 characters is rejected: the passes never add
\* a symbol whose name is longer than 31 characters.
C27_NoLongSymbol ==
  \A i \in 1..Len(symbols) : Len(symbols[i].name) <= MAX_LABEL_LENGTH

(***************************************************************************)
(* The text helpers called on any argument (specifications NormalizeSpec   *)
(* and StringSpec).                                                        *)
(***************************************************************************)
\* longest string handed to a helper
MaxTextLen == 4

Strings(alphabet) == UNION {[1..k -> alphabet] : k \in 0..MaxTextLen}

\* arguments of normalize_string: letters, blanks and tabs
NormalizeArgs == Strings({"a", " ", "\t"})
\* arguments of parse_string_value: quotes, letters and blanks
StringArgs == Strings({"\"", "a", "b", " "})

NormalizeString ==
  \E s \in NormalizeArgs, collapse_spaces \in BOOLEAN :
    /\ call' = Call("normalize_string", s,
                    IF collapse_spaces THEN 1 ELSE 0, 0)
    /\ ret' = normalize_string(s, collapse_spaces)
    /\ UNCHANGED <<symbols, sym_def, diag>>
    /\ UNCHANGED pipevars
    /\ UNCHANGED macrovars

ParseStringValue ==
  \E s \in StringArgs :
    /\ call' = Call("parse_string_value", s, MAX_STRING_LENGTH, 0)
    /\ ret' = parse_string_value(s, MAX_STRING_LENGTH)
    /\ UNCHANGED <<symbols, sym_def, diag>>
    /\ UNCHANGED pipevars
    /\ UNCHANGED macrovars

NormalizeNext == NormalizeString

NormalizeSpec == Init /\ [][NormalizeNext]_vars

StringNext == ParseStringValue

StringSpec == Init /\ [][StringNext]_vars

Trimmed(s) == Len(s) = 0 \/ (~isspace(s[1]) /\ ~isspace(s[Len(s)]))

\* the result of normalize_string, normalized again with the same flag, is
\* itself, and it neither starts nor ends with whitespace
NormalFormOf(s, collapse_spaces) ==
  /\ normalize_string(s, collapse_spaces) = s
  /\ Trimmed(s)

\* with the collapse flag set
C28_CollapsedIdempotent ==
  call.op = "normalize_string" /\ call.value = 1 => NormalFormOf(ret, TRUE)

\* C28: normalize_string is idempotent for either value of the collapse
\* flag, normalize(normalize(s, c), c) = normalize(s, c), and its result has
\* no leading or trailing whitespace.
C28_Idempotent ==
  call.op = "normalize_string" => NormalFormOf(ret, call.value = 1)

(***************************************************************************)
(* Encoders (code_conversion.c), applied to 24-bit words (specification    *)
(* EncodeSpec).                                                            *)
(***************************************************************************)
base64_table ==
  <<"A","B","C","D","E","F","G","H","I","J","K","L","M",
    "N","O","P","Q","R","S","T","U","V","W","X","Y","Z",
    "a","b","c","d","e","f","g","h","i","j","k","l","m",
    "n","o","p","q","r","s","t","u","v","w","x","y","z",
    "0","1","2","3","4","5","6","7","8","9","+","/">>

\* (word >> i) & mask, for mask = 2^bits - 1
ShiftMask(word, i, bits) == (word \div (2^i)) % (2^bits)

\* the bits written least significant first
word_to_binary_lsb_first(word) ==
  [k \in 1..WORD_SIZE |-> IF ShiftMask(word, k - 1, 1) = 1 THEN "1" ELSE "0"]

\* for (i = WORD_SIZE - 1; i >= 0; i--): character k is bit WORD_SIZE - k
word_to_binary(word) ==
  [k \in 1..WORD_SIZE |->
     IF ShiftMask(word, WORD_SIZE - k, 1) = 1 THEN "1" ELSE "0"]

\* sprintf(output, "%06X", word & 0xFFFFFF)
word_to_hex(word) == Fmt06X(word % (2^24))

word_to_base64(word) ==
  <<base64_table[ShiftMask(word, 18, 6) + 1],
    base64_table[ShiftMask(word, 12, 6) + 1],
    base64_table[ShiftMask(word, 6, 6) + 1],
    base64_table[ShiftMask(word, 0, 6) + 1]>>

\* number of sample words
MaxEncoded == 255

\* 24-bit words spread over the whole range, with both ends
EncodeWords ==
  {(k * 69069) % (2^WORD_SIZE) : k \in 0..MaxEncoded} \cup {2^WORD_SIZE - 1}

EncodeWord ==
  \E word \in EncodeWords :
    /\ call' = Call("encode", NULL, word, 0)
    /\ ret' = [binary |-> word_to_binary(word),
               hex |-> word_to_hex(word),
               base64 |-> word_to_base64(word)]
    /\ UNCHANGED <<symbols, sym_def, diag>>
    /\ UNCHANGED pipevars
    /\ UNCHANGED macrovars

EncodeNext == EncodeWord

EncodeSpec == Init /\ [][EncodeNext]_vars

\* the position (from 0) of a character in an alphabet
IndexIn(alphabet, c) == (CHOOSE k \in 1..Len(alphabet) : alphabet[k] = c) - 1

\* the number a string of digits denotes, most significant digit first
RECURSIVE ValueOf(_, _)
ValueOf(str, alphabet) ==
  IF Len(str) = 0 THEN 0
  ELSE ValueOf(SubSeq(str, 1, Len(str) - 1), alphabet) * Len(alphabet)
       + IndexIn(alphabet, str[Len(str)])

Over(str, alphabet) ==
  \A k \in 1..Len(str) : \E j \in 1..Len(alphabet) : alphabet[j] = str[k]

Interior(s) == IF Len(s) <= 2 THEN <<>> ELSE SubSeq(s, 2, Len(s) - 1)

Codes(s) == [k \in 1..Len(s) |-> Ord(s[k])]

\* the argument starts with a quote and ends with another
Quoted(s) == Len(s) >= 2 /\ s[1] = "\"" /\ s[Len(s)] = "\""

\* what the call returns for a quoted argument without a quote inside
C30_PlainQuoted ==
  (/\ call.op = "parse_string_value"
   /\ Quoted(call.name)
   /\ ~Over(<<"\"">>, Interior(call.name))) =>
      /\ ret.count = Len(call.name) - 1
      /\ ret.values = Append(Codes(Interior(call.name)), 0)

\* C30: parse_string_value succeeds exactly when its argument begins and
\* ends with a double quote, and then returns the codes of all characters
\* between the opening and the closing quote, in order, followed by one 0.
C30_QuotedExactly ==
  call.op = "parse_string_value" =>
    /\ ((ret.count # -1) <=> Quoted(call.name))
    /\ (ret.count # -1) =>
         /\ ret.values = Append(Codes(Interior(call.name)), 0)
         /\ ret.count = Len(ret.values)

(***************************************************************************)
(* Entry directives across the two passes (first_pass.c, second_pass.c).   *)
(***************************************************************************)
NameX == <<"X">>

\* the line defines the name as a label of the file: processed by first pass
\* on an empty table it adds a symbol of that name which is not extern
Defines(raw, name) ==
  LET r == first_pass_line(<<>>, init_assembler_state(0), raw)
  IN  /\ Len(r.tab) = 1
      /\ r.tab[1].name = name
      /\ r.tab[1].type # SYMBOL_EXTERN

\* the file has a .entry X line and a line defining X, in either order
EntryAndDefinition ==
  \E j, k \in 1..Len(am) : am[j] = LineEntry /\ Defines(am[k], NameX)

Marked(name) ==
  \E i \in 1..Len(symbols) : symbols[i].name = name /\ symbols[i].entry_flag

NoEntryFlag == \A i \in 1..Len(symbols) : ~symbols[i].entry_flag

\* a step of first pass sets no entry flag: a flag that is set after the
\* step was set before it
C31_FirstPassSetsNoFlag ==
  [][pc = "first_pass" =>
       \A i \in 1..Len(symbols') :
         symbols'[i].entry_flag => (i <= Len(symbols) /\ symbols[i].entry_flag)]_vars

\* within the first file of a batch no entry flag is set until first pass
\* has completed
C31_FirstFileNoFlag ==
  (file_idx = 1 /\ pc \in {"first_pass", "first_pass_done"}) => NoEntryFlag

\* C31: no entry flag is set before first pass has completed: .entry lines
\* change nothing in first pass and are applied only in second pass, so
\* .entry X marks X whether the line defining X comes before or after the
\* .entry line in the file.
C31_EntryOnlyInSecondPass ==
  /\ pc \in {"first_pass", "first_pass_done"} => NoEntryFlag
  /\ (pc = "generate" /\ EntryAndDefinition) => Marked(NameX)

\* second pass has marked X from a .entry line that precedes its definition
C31_Witness ==
  /\ pc = "generate"
  /\ Len(am) = 2
  /\ am[1] = LineEntry
  /\ Defines(am[2], NameX)
  /\ Marked(NameX)

(***************************************************************************)
(* Properties of the passes line by line (checked under PassSpec).         *)
(***************************************************************************)
\* what first pass makes of a line: its label, directive and argument text
FirstPassParse(raw) ==
  LET line == remove_comment(normalize_string(raw, TRUE))
      pos == skip_whitespace(line, 0)
      lab == extract_label(line, pos)
      dir == extract_directive(line, lab.pos)
      arg == extract_arguments(line, dir.pos)
  IN  [skipped |-> At(line, pos) = NUL \/ At(line, pos) = "\n",
       label |-> lab.label, directive |-> dir.directive, args |-> arg.args]

\* this step is the iteration of first pass on one more line
FirstPassStep ==
  /\ pc = "first_pass"
  /\ pc' = "first_pass"
  /\ Len(am') = Len(am) + 1

LineRead == am'[Len(am')]

ExternStep ==
  /\ FirstPassStep
  /\ ~FirstPassParse(LineRead).skipped
  /\ FirstPassParse(LineRead).directive = EXTERN_DIRECTIVE

CountersKept ==
  /\ state'.instruction_counter = state.instruction_counter
  /\ state'.data_counter = state.data_counter

AddsExtern(name) ==
  symbols' = Append(symbols, Symbol(name, 0, SYMBOL_EXTERN, FALSE))

\* C32 as stated: in first pass a .extern line adds exactly one symbol of
\* kind extern with value 0 whose name is the argument text of the
\* directive, leaves IC and DC unchanged, and adds no symbol for a label
\* prefixed to that line.
C32_ExternAddsOne ==
  [][ExternStep =>
       /\ AddsExtern(FirstPassParse(LineRead).args)
       /\ CountersKept]_vars

\* C32: in first pass a .extern line whose argument text is a name not yet
\* in the symbol table, the table not being full, adds exactly one symbol of
\* kind extern with value 0 and that name; a .extern line without an
\* argument, or naming a symbol of the table, or read when the table is
\* full, leaves the table as it is.  In every case IC and DC are unchanged
\* and no symbol is added for a label prefixed to the line.
C32_ExternAddsOneIfNew ==
  [][ExternStep =>
       LET name == FirstPassParse(LineRead).args
       IN  /\ IF /\ name # NULL
                 /\ ~HasName(symbols, name)
                 /\ Len(symbols) < MAX_SYMBOLS
               THEN AddsExtern(name)
               ELSE symbols' = symbols
           /\ CountersKept]_vars

\* a labelled .extern line was processed: X was added, its label L was not
C32_Witness ==
  /\ pc = "first_pass"
  /\ Len(am) > 0
  /\ am[Len(am)] = LineLabelExtern
  /\ HasName(symbols, NameX)
  /\ symbols[Len(symbols)].type = SYMBOL_EXTERN
  /\ ~HasName(symbols, <<"L">>)

\* the line is a directive other than .data, .string, .entry and .extern
UnknownDirective(raw) ==
  LET p == FirstPassParse(raw)
  IN  /\ ~p.skipped
      /\ p.directive # NULL
      /\ p.directive \notin {DATA_DIRECTIVE, STRING_DIRECTIVE, ENTRY_DIRECTIVE,
                             EXTERN_DIRECTIVE}

\* the line is a .data or .string whose argument text is absent or does not
\* parse
Malformed(raw) ==
  LET p == FirstPassParse(raw)
  IN  /\ ~p.skipped
      /\ \/ /\ p.directive \in {DATA_DIRECTIVE, STRING_DIRECTIVE}
            /\ p.args = NULL
         \/ /\ p.directive = DATA_DIRECTIVE
            /\ p.args # NULL
            /\ parse_data_values(p.args, MAX_DATA_VALUES).count < 0
         \/ /\ p.directive = STRING_DIRECTIVE
            /\ p.args # NULL
            /\ parse_string_value(p.args, MAX_STRING_LENGTH).count < 0

\* first pass is under way and a line it has read was in error: an unknown
\* directive, a malformed .data/.string, or a symbol that was refused
ErrorBefore ==
  /\ pc = "first_pass"
  /\ \/ \E k \in 1..Len(am) : UnknownDirective(am[k]) \/ Malformed(am[k])
     \/ SymbolDiagnosticInFirstPass

FirstPassReads == pc = "first_pass" /\ Len(am') = Len(am) + 1

\* C33: after a recoverable error on some line of first pass (unknown
\* directive, malformed .data/.string, duplicate symbol), every later line of
\* the file is still processed (its symbols, data words and IC/DC increments
\* are applied) and, for an unknown directive, a syntax diagnostic is
\* reported and first pass returns failure.
C33_LaterLinesProcessed ==
  [][/\ (FirstPassReads
           /\ (UnknownDirective(LineRead) \/ Malformed(LineRead))) =>
          pc' = "first_pass"
     /\ (ErrorBefore /\ FirstPassReads) =>
          /\ pc' = "first_pass"
          /\ symbols' = first_pass_line(symbols, state, LineRead).tab
          /\ state' = first_pass_line(symbols, state, LineRead).st
     /\ (FirstPassReads /\ UnknownDirective(LineRead)) =>
          /\ \E k \in 1..Len(diag') : diag'[k].type = "Syntax"
          /\ success' = 0
     /\ (pc = "first_pass" /\ pc' = "first_pass_done"
           /\ \E k \in 1..Len(am) : UnknownDirective(am[k])) =>
          ret' = 0]_vars

\* the part of C33 about lines that do not fault: an unknown directive is
\* reported and fails the pass, and the pass goes on to the next line
C33_Recovers ==
  [][/\ (ErrorBefore /\ FirstPassReads /\ pc' # "crashed") =>
          /\ pc' = "first_pass"
          /\ symbols' = first_pass_line(symbols, state, LineRead).tab
          /\ state' = first_pass_line(symbols, state, LineRead).st
     /\ (FirstPassReads /\ UnknownDirective(LineRead)) =>
          /\ \E k \in 1..Len(diag') : diag'[k].type = "Syntax"
          /\ success' = 0
     /\ (pc = "first_pass" /\ pc' = "first_pass_done"
           /\ \E k \in 1..Len(am) : UnknownDirective(am[k])) =>
          ret' = 0]_vars

\* a data line was stored after an unknown directive, and the pass failed
C33_Witness ==
  /\ pc = "first_pass_done"
  /\ Len(am) = 2
  /\ UnknownDirective(am[1])
  /\ am[2] = LineData
  /\ HasName(symbols, NameX)
  /\ state.data_counter = 2
  /\ ret = 0

\* the parser returned -1 for the argument text of the .data/.string line
ParseFails(raw) ==
  LET p == FirstPassParse(raw)
  IN  /\ ~p.skipped
      /\ p.args # NULL
      /\ \/ /\ p.directive = DATA_DIRECTIVE
            /\ parse_data_values(p.args, MAX_DATA_VALUES).count < 0
         \/ /\ p.directive = STRING_DIRECTIVE
            /\ parse_string_value(p.args, MAX_STRING_LENGTH).count < 0

WithinLineBuffers(raw) ==
  LET p == FirstPassParse(raw)
  IN  (~p.skipped /\ p.args # NULL) =>
        /\ p.directive = DATA_DIRECTIVE =>
             Len(parse_data_values(p.args, MAX_DATA_VALUES).values)
               <= MAX_DATA_VALUES
        /\ p.directive = STRING_DIRECTIVE =>
             Len(parse_string_value(p.args, MAX_STRING_LENGTH).values)
               <= MAX_STRING_LENGTH

\* the half of C35 about the buffers of one line
C35_LineBuffers == \A k \in 1..Len(am) : WithinLineBuffers(am[k])

\* C35: in every state reached during first pass, the data counter DC does
\* not exceed the allocated capacity of the data image: no .data/.string
\* line writes a word past the end of the data image, and the number of
\* values taken from one line never exceeds the buffers of the line.
C35_DataWithinImage ==
  /\ state.data_counter <= state.data_capacity
  /\ Len(state.data_image) <= state.data_capacity
  /\ \A k \in 1..Len(am) : WithinLineBuffers(am[k])

\* a word as the encoder leaves it: one of the A, R, E bits beside the content
Encoded(word) ==
  /\ word.ARE \in {ARE_ABSOLUTE, ARE_RELOCATABLE, ARE_EXTERNAL}
  /\ word.content \in 0..(2^CONTENT_BITS - 1)

\* the .ob artifact of the file was written from the state
Emitted == pc = "cleanup" /\ ob.written

\* no step of either pass assigns a slot of the code image
C36_CodeImageNeverWritten ==
  [][InPass => state'.code_image = state.code_image]_vars

\* C36: every code-image slot that the emitter reads for the .ob code section
\* (indices 0 .. IC-1) lies within the allocated code image and was written
\* with an encoded word by one of the passes before emission.
C36_EmittedCodeWritten ==
  Emitted =>
    \A i \in 0..(state.instruction_counter - 1) :
      /\ i < state.code_capacity
      /\ Encoded(state.code_image[i + 1])

(***************************************************************************)
(* The reading of a line by the two passes (checked under PassSpec).       *)
(***************************************************************************)
\* what second pass makes of a line: no comment is removed, and a line is
\* skipped when it is empty or starts with the comment character
SecondPassParse(raw) ==
  LET line == normalize_string(raw, TRUE)
      pos == skip_whitespace(line, 0)
      lab == extract_label(line, pos)
      dir == extract_directive(line, lab.pos)
      arg == extract_arguments(line, dir.pos)
  IN  [skipped |-> At(line, pos) = NUL \/ At(line, pos) = COMMENT_CHAR,
       label |-> lab.label, directive |-> dir.directive, args |-> arg.args]

\* skipped, directive D with argument text A, or instruction
Classification(p) ==
  IF p.skipped THEN <<"skipped">>
  ELSE IF p.directive # NULL THEN <<"directive", p.directive, p.args>>
  ELSE <<"instruction">>

\* both passes count the same instruction lines of the file
C37_SameInstructionLines ==
  \A k \in 1..Len(am) :
    (Classification(FirstPassParse(am[k])) = <<"instruction">>)
      <=> (Classification(SecondPassParse(am[k])) = <<"instruction">>)

\* C37: first and second pass classify every line of the expanded file
\* identically: a line is skipped, treated as directive D with argument text
\* A, or treated as an instruction in second pass exactly when it is so in
\* first pass, so that a .entry X line followed by a comment marks X and
\* both passes count the same instruction lines.
C37_SameClassification ==
  /\ \A k \in 1..Len(am) :
       Classification(FirstPassParse(am[k]))
         = Classification(SecondPassParse(am[k]))
  /\ (pc = "generate" /\ am = <<LineData, LineEntryComment>>) =>
       Marked(NameX)

(***************************************************************************)
(* Invocations in the output of the preprocessor (checked under MacroSpec).*)
(***************************************************************************)
\* the characters the step appended to the output
EmittedChars == SubSeq(output', Len(output) + 1, Len(output'))

\* the line, normalized as expand_macros normalizes it, is the name of a
\* macro of the table
Invokes(table, line) == find_macro(table, normalize_string(line, TRUE)) # 0

\* the step leaves expand_macros outside a definition and reading: the end of
\* the input, if it came now, would make the run a success
MayEndInSuccess == macro_status' = "reading" /\ current_macro' = 0

\* C38: macro expansion leaves no invocation unexpanded: after successful
\* preprocessing, no output line has a normalized form equal to the name of
\* a macro that was already defined when that line was emitted, including
\* lines that come from a macro body which itself names an earlier macro.
C38_NoInvocationLeft ==
  [][(ReadsLine /\ MayEndInSuccess) =>
       LET lines == SplitLines(EmittedChars, <<>>)
       IN  \A k \in 1..Len(lines) : ~Invokes(macro_table, lines[k])]_vars

\* the lines copied from the input, as opposed to those printed from a body,
\* are never invocations: a line is copied only when find_macro finds nothing
C38_CopiedLinesAreNotInvocations ==
  [][(ReadsLine /\ MayEndInSuccess /\ FitsBuffer(<<LastRead>>)
        /\ ~Invokes(macro_table, LastRead)) =>
       LET lines == SplitLines(EmittedChars, <<>>)
       IN  \A k \in 1..Len(lines) : ~Invokes(macro_table, lines[k])]_vars

(***************************************************************************)
(* Preprocessing a text as a whole, and its own output again.              *)
(***************************************************************************)
\* the loop of expand_macros over the physical lines of a text
RECURSIVE expand_text(_, _)
expand_text(m, text) ==
  IF Len(text) = 0 \/ m.status # "reading" THEN m
  ELSE expand_text(expand_reads(m, fgets(text[1])), Tail(text))

\* expand_macros(input, output) on a text, from an empty macro table
expand_macros(text) ==
  LET m == expand_text(Expansion(<<>>, 0, <<>>, "reading", <<>>), text)
  IN  IF m.status # "reading" THEN m
      ELSE [m EXCEPT !.status = IF m.current # 0 THEN "MACRO_ERROR_SYNTAX"
                                                 ELSE "MACRO_SUCCESS"]

\* the characters of a text, line after line
RECURSIVE Characters(_)
Characters(text) ==
  IF Len(text) = 0 THEN <<>> ELSE text[1] \o Characters(Tail(text))

\* the physical lines of a character stream, newline included
PhysicalLines(chars) ==
  LET lines == SplitLines(chars, <<>>)
  IN  [k \in 1..Len(lines) |->
         IF k = Len(lines) /\ chars[Len(chars)] # "\n"
           THEN lines[k] ELSE lines[k] \o <<"\n">>]

NoKeywordInput(text) ==
  \A k \in 1..Len(text) : ~IsMcroLine(text[k]) /\ ~IsEndmcroLine(text[k])

\* expand_macros has returned
Ended == macro_status # "reading"

\* preprocessing the output again gives the output
Reproduced ==
  LET again == expand_macros(PhysicalLines(output))
  IN  /\ again.status = "MACRO_SUCCESS"
      /\ again.output = output

\* C39 for sources whose lines fit the buffer of fgets
C39_IdentityOnShortLines ==
  /\ (Ended /\ NoKeywordInput(input) /\ FitsBuffer(input)) =>
       /\ macro_status = "MACRO_SUCCESS"
       /\ output = Characters(input)
  /\ (macro_status = "MACRO_SUCCESS" /\ FitsBuffer(input)) => Reproduced

\* C39: preprocessing an input that has no line starting (after
\* normalization) with mcro or endmcro succeeds and produces an output
\* identical to the input; consequently preprocessing the output of a
\* successful preprocessing run reproduces that output unchanged.
C39_Identity ==
  /\ (Ended /\ NoKeywordInput(input)) =>
       /\ macro_status = "MACRO_SUCCESS"
       /\ output = Characters(input)
  /\ macro_status = "MACRO_SUCCESS" => Reproduced

\* a source with a macro and its invocation was preprocessed, and its output
\* preprocessed again came out the same
C39_Witness ==
  /\ macro_status = "MACRO_SUCCESS"
  /\ Len(macro_table) > 0
  /\ Len(output) > 0
  /\ output # Characters(input)
  /\ Reproduced

=============================================================================
